---- MODULE Spec2Model ----
(***************************************************************************)
(* Model of the anime recommendation engine                                *)
(* (src/src/ai/recommendation/engine.py) with the item model               *)
(* (src/src/ai/models/anime.py), the user preference profile               *)
(* (src/src/ai/preferences/user_preferences.py) and the colour preference  *)
(* matcher (src/src/ai/preferences/color_preferences.py).                  *)
(*                                                                         *)
(* Numbers: every float of the program is modelled by an exact rational    *)
(* <<n, d>> in lowest terms with d > 0.  Dictionary values (feature        *)
(* scores, preference weights, positivity) are stored in tenths, as the    *)
(* integer n standing for n/10.  Option weights are stored in tenths too.  *)
(***************************************************************************)
EXTENDS Integers, Sequences, FiniteSets, TLC

(***************************************************************************)
(* Exact rational arithmetic.                                              *)
(***************************************************************************)
Abs(x) == IF x < 0 THEN -x ELSE x

RECURSIVE GCD(_, _)
GCD(a, b) == IF b = 0 THEN a ELSE GCD(b, a % b)

Rat(n, d) ==
    LET g == GCD(Abs(n), Abs(d))
        s == IF d < 0 THEN -1 ELSE 1
    IN  <<(s * n) \div g, (s * d) \div g>>

Zero == <<0, 1>>
One == <<1, 1>>
Tenths(n) == Rat(n, 10)

RAdd(a, b) == Rat(a[1] * b[2] + b[1] * a[2], a[2] * b[2])
RSub(a, b) == Rat(a[1] * b[2] - b[1] * a[2], a[2] * b[2])
RMul(a, b) == Rat(a[1] * b[1], a[2] * b[2])
RDivInt(a, k) == Rat(a[1], a[2] * k)
RAbs(a) == <<Abs(a[1]), a[2]>>
RLe(a, b) == a[1] * b[2] <= b[1] * a[2]
RLt(a, b) == a[1] * b[2] < b[1] * a[2]
RMax(a, b) == IF RLe(a, b) THEN b ELSE a

(***************************************************************************)
(* Python containers.  A dict is a function whose DOMAIN is its key set;   *)
(* a list is a sequence.                                                   *)
(***************************************************************************)
EmptyDict == [k \in {} |-> 0]
DictGet(d, k, default) == IF k \in DOMAIN d THEN d[k] ELSE default
DictSet(d, k, v) == [x \in DOMAIN d \cup {k} |-> IF x = k THEN v ELSE d[x]]
Range(s) == {s[i] : i \in DOMAIN s}
Min(a, b) == IF a <= b THEN a ELSE b
Max(a, b) == IF a >= b THEN a ELSE b
None == "None"
\* an Optional value: Nothing for None, Some(v) for a value
Nothing == <<>>
Some(v) == <<v>>
\* an Optional[AnimeVisualProfile] that is None
NoProfile == [none |-> TRUE]

RECURSIVE SumSeq(_)
SumSeq(s) == IF s = <<>> THEN 0 ELSE s[1] + SumSeq(Tail(s))

(***************************************************************************)
(* The Anime objects of the model.  Each index of AnimePool is one Python  *)
(* object (object identity = index); two objects may carry the same id.    *)
(* Objects 1..3 are the items of tests/test_recommendation_engine.py.      *)
(* Object 4 has the id of object 1 and an empty AnimeFeatures (all         *)
(* defaults), object 5 has the most negative sentiment and an image_url,   *)
(* object 6 has features whose values are all 0.  Object 2 is constructed  *)
(* with a visual profile.                                                  *)
(***************************************************************************)
\* a title is the sequence of its characters
TestTitle(n) == <<"T", "e", "s", "t", " ", "A", "n", "i", "m", "e", " ", n>>

Features(g, t, s, e, d) ==
    [genres |-> g, themes |-> t, sentiment |-> s, emotion_profile |-> e,
     target_demographic |-> d]

EmptyFeatures == Features(EmptyDict, EmptyDict, EmptyDict, EmptyDict, EmptyDict)

AnimePool ==
    << [id |-> "1", title |-> TestTitle("1"),
        genres |-> <<"action", "adventure">>, studios |-> <<"Studio A">>,
        synopsis |-> None, image_url |-> None,
        visual_profile |-> NoProfile,
        features |-> Features(EmptyDict,
                              [adventure |-> 9, action |-> 8],
                              [positivity |-> 8, intensity |-> 7],
                              [joy |-> 8, excitement |-> 7, anticipation |-> 6],
                              EmptyDict)],
       [id |-> "2", title |-> TestTitle("2"),
        genres |-> <<"drama", "romance">>, studios |-> <<"Studio B">>,
        synopsis |-> None, image_url |-> None,
        visual_profile |-> [color_palettes |-> [warm |-> 10, vibrant |-> 6],
                            visual_styles |-> [retro |-> 7]],
        features |-> Features(EmptyDict,
                              [drama |-> 9, romance |-> 8],
                              [positivity |-> 2, intensity |-> 9],
                              [sadness |-> 7, melancholy |-> 6, comfort |-> 5],
                              EmptyDict)],
       [id |-> "3", title |-> TestTitle("3"),
        genres |-> <<"comedy", "slice_of_life">>, studios |-> <<"Studio A">>,
        synopsis |-> None, image_url |-> None,
        visual_profile |-> NoProfile,
        features |-> Features(EmptyDict,
                              [comedy |-> 9, slice_of_life |-> 8],
                              [positivity |-> 9, intensity |-> 4],
                              [joy |-> 9, comfort |-> 8, trust |-> 7],
                              EmptyDict)],
       [id |-> "1", title |-> TestTitle("1"),
        genres |-> <<>>, studios |-> <<>>,
        synopsis |-> "a synopsis", image_url |-> None,
        visual_profile |-> NoProfile,
        features |-> EmptyFeatures],
       [id |-> "4", title |-> TestTitle("4"),
        genres |-> <<"drama">>, studios |-> <<"Studio B">>,
        synopsis |-> "a synopsis", image_url |-> "http://img/4",
        visual_profile |-> NoProfile,
        features |-> Features(EmptyDict, EmptyDict,
                              [positivity |-> -10, intensity |-> 10],
                              EmptyDict, EmptyDict)],
       [id |-> "2", title |-> TestTitle("2"),
        genres |-> <<"drama">>, studios |-> <<>>,
        synopsis |-> None, image_url |-> None,
        visual_profile |-> NoProfile,
        features |-> Features([drama |-> 0], EmptyDict,
                              [positivity |-> 0, intensity |-> 0],
                              EmptyDict, EmptyDict)] >>

Objs == DOMAIN AnimePool

(***************************************************************************)
(* class Mood, class RatingScale                                           *)
(***************************************************************************)
Mood ==
    {"happy", "sad", "relaxed", "excited", "thoughtful", "adventurous",
     "romantic", "mysterious", "any"}

RatingScale == 1..5

(***************************************************************************)
(* The catalog, self._anime_catalog: a dict id -> Anime, modelled as the   *)
(* sequence of its entries [id, obj] in dict (insertion) order.            *)
(***************************************************************************)
CatalogIds(cat) == {cat[i].id : i \in DOMAIN cat}
CatalogGet(cat, id) ==
    IF id \in CatalogIds(cat)
    THEN (CHOOSE i \in DOMAIN cat : cat[i].id = id)
    ELSE 0
CatalogObj(cat, id) == cat[CatalogGet(cat, id)].obj

\* self._anime_catalog[anime.id] = anime : a new key is appended, an
\* existing key keeps its position and gets the new object.
CatalogPut(cat, o) ==
    LET id == AnimePool[o].id
    IN  IF id \in CatalogIds(cat)
        THEN [cat EXCEPT ![CatalogGet(cat, id)] = [id |-> id, obj |-> o]]
        ELSE Append(cat, [id |-> id, obj |-> o])

(***************************************************************************)
(* RecommendationEngine._calculate_mood_relevance                          *)
(***************************************************************************)
MoodMappings ==
    [happy       |-> [emotions |-> <<"joy", "excitement", "comfort">>,
                      themes   |-> <<"comedy", "slice_of_life">>],
     sad         |-> [emotions |-> <<"sadness", "melancholy">>,
                      themes   |-> <<"drama">>],
     relaxed     |-> [emotions |-> <<"comfort", "trust">>,
                      themes   |-> <<"slice_of_life", "iyashikei">>],
     excited     |-> [emotions |-> <<"excitement", "anticipation">>,
                      themes   |-> <<"action", "adventure", "sports">>],
     thoughtful  |-> [emotions |-> <<"melancholy", "trust">>,
                      themes   |-> <<"psychological", "philosophical">>],
     adventurous |-> [emotions |-> <<"excitement", "anticipation", "surprise">>,
                      themes   |-> <<"adventure", "fantasy", "science_fiction">>],
     romantic    |-> [emotions |-> <<"joy", "anticipation", "trust">>,
                      themes   |-> <<"romance">>],
     mysterious  |-> [emotions |-> <<"surprise", "anticipation", "tension">>,
                      themes   |-> <<"mystery", "supernatural", "horror">>]]

\* sum(scores) / len(scores) if scores else 0.0, the scores being
\* d.get(k, 0.0) for the keys k of targets (values in tenths)
MeanOfTargets(d, targets) ==
    IF targets = <<>>
    THEN Zero
    ELSE Rat(SumSeq([i \in DOMAIN targets |-> DictGet(d, targets[i], 0)]),
             10 * Len(targets))

\* mutant: the mood is never found in mood_mappings
MappedMoodRelevanceUnmapped(feat, mood) ==
    RAdd(RMul(Tenths(6), MeanOfTargets(feat.emotion_profile, <<>>)),
         RMul(Tenths(4), MeanOfTargets(feat.themes, <<>>)))

\* mood_mappings.get(mood, {}).get("emotions", []) and the weighted sum
MappedMoodRelevance(feat, mood) ==
    LET target_emotions ==
            IF mood \in DOMAIN MoodMappings THEN MoodMappings[mood].emotions ELSE <<>>
        target_themes ==
            IF mood \in DOMAIN MoodMappings THEN MoodMappings[mood].themes ELSE <<>>
        emotion_score == MeanOfTargets(feat.emotion_profile, target_emotions)
        theme_score == MeanOfTargets(feat.themes, target_themes)
    IN  RAdd(RMul(Tenths(6), emotion_score), RMul(Tenths(4), theme_score))

\* mutant: no early return for Mood.ANY
MoodRelevanceWithoutAny(feat, mood) == MappedMoodRelevance(feat, mood)

CalculateMoodRelevance(feat, mood) ==
    IF mood = "any" THEN One ELSE MappedMoodRelevance(feat, mood)

(***************************************************************************)
(* RecommendationEngine.score_anime: the five signals                      *)
(***************************************************************************)
\* genre_score: sum of the profile's weights of the item's genres, divided
\* by max(1, len(genres)), floored at 0.0
\* mutant: the quotient is not floored at 0.0
GenreScoreUnfloored(o, p) ==
    LET gs == AnimePool[o].genres
        total == SumSeq([i \in DOMAIN gs |-> DictGet(p.genre_preferences, gs[i], 0)])
    IN  Rat(total, 10 * Max(1, Len(gs)))

GenreScore(o, p) ==
    LET gs == AnimePool[o].genres
        total == SumSeq([i \in DOMAIN gs |-> DictGet(p.genre_preferences, gs[i], 0)])
    IN  RMax(Zero, Rat(total, 10 * Max(1, Len(gs))))

StudioScore(o, p) ==
    IF \E i \in DOMAIN AnimePool[o].studios :
           AnimePool[o].studios[i] \in p.favorite_studios
    THEN One
    ELSE Zero

RECURSIVE SumOver(_, _)
SumOver(S, f) ==
    IF S = {} THEN 0
    ELSE LET x == CHOOSE y \in S : TRUE
         IN  f[x] + SumOver(S \ {x}, f)

\* the rated ids whose positivity enters user_positivity: rating >= 4,
\* the id is in the catalog and the catalog's item has a sentiment
QualifyingRated(cat, feats, p) ==
    {id \in DOMAIN p.anime_ratings :
        /\ p.anime_ratings[id] >= 4
        /\ id \in CatalogIds(cat)
        /\ DOMAIN feats[CatalogObj(cat, id)].sentiment # {}}

\* user_positivity after the loop and the division by len(anime_ratings)
UserPositivity(cat, feats, p) ==
    LET Q == QualifyingRated(cat, feats, p)
        pos == [id \in Q |->
                  DictGet(feats[CatalogObj(cat, id)].sentiment, "positivity", 0)]
    IN  Rat(SumOver(Q, pos), 10 * Cardinality(DOMAIN p.anime_ratings))

SentimentScore(o, cat, feats, p) ==
    IF DOMAIN feats[o].sentiment = {}
    THEN Zero
    ELSE IF DOMAIN p.anime_ratings = {}
    THEN Zero
    ELSE RSub(One, RAbs(RSub(UserPositivity(cat, feats, p),
                             Tenths(DictGet(feats[o].sentiment, "positivity", 0)))))

(***************************************************************************)
(* ColorPreferenceProcessor.calculate_preference_match and the colour      *)
(* part of score_anime.  A colour preference is [kind, tag, weight] with   *)
(* kind "palette" (ColorPreference) or "style" (VisualStylePreference);    *)
(* a visual profile is [color_palettes, visual_styles] or NoProfile.       *)
(***************************************************************************)
\* the dict that the loop over user_prefs.color_preferences builds for one
\* kind: a later preference for the same tag overwrites an earlier one
RECURSIVE PrefDict(_, _)
PrefDict(prefs, kind) ==
    IF prefs = <<>>
    THEN EmptyDict
    ELSE LET n == Len(prefs)
             rest == PrefDict(SubSeq(prefs, 1, n - 1), kind)
         IN  IF prefs[n].kind = kind
             THEN DictSet(rest, prefs[n].tag, prefs[n].weight)
             ELSE rest

\* weight_sum of one loop of calculate_preference_match, in tenths
WeightSum(prefDict) ==
    SumOver(DOMAIN prefDict, [k \in DOMAIN prefDict |-> Abs(prefDict[k])])

\* one loop of calculate_preference_match followed by the division
\* by the weight sum when that is positive
MatchOf(prefDict, profileDict) ==
    LET term == [k \in DOMAIN prefDict |->
                    LET profile_value == DictGet(profileDict, k, 0)
                        match_value == IF prefDict[k] < 0
                                       THEN 10 - profile_value
                                       ELSE profile_value
                    IN  Abs(prefDict[k]) * match_value]
        total == SumOver(DOMAIN prefDict, term)
    IN  IF WeightSum(prefDict) > 0
        THEN Rat(total, 10 * WeightSum(prefDict))
        ELSE Rat(total, 100)

\* mutant: one average over the palette and style preferences together
CalculatePreferenceMatchPooled(profile, color_preferences, style_preferences) ==
    LET term(d, pd) == [k \in DOMAIN d |->
                          Abs(d[k]) * (IF d[k] < 0 THEN 10 - DictGet(pd, k, 0)
                                       ELSE DictGet(pd, k, 0))]
        total == SumOver(DOMAIN color_preferences,
                         term(color_preferences, profile.color_palettes))
                 + SumOver(DOMAIN style_preferences,
                           term(style_preferences, profile.visual_styles))
        weight_sum == WeightSum(color_preferences) + WeightSum(style_preferences)
    IN  IF weight_sum > 0 THEN Rat(total, 10 * weight_sum) ELSE Tenths(5)

CalculatePreferenceMatch(profile, color_preferences, style_preferences) ==
    LET palette_match == MatchOf(color_preferences, profile.color_palettes)
        style_match == MatchOf(style_preferences, profile.visual_styles)
        palette_weight_sum == WeightSum(color_preferences)
        style_weight_sum == WeightSum(style_preferences)
    IN  IF palette_weight_sum > 0 /\ style_weight_sum > 0
        THEN RAdd(RMul(Tenths(6), palette_match), RMul(Tenths(4), style_match))
        ELSE IF palette_weight_sum > 0 THEN palette_match
        ELSE IF style_weight_sum > 0 THEN style_match
        ELSE Tenths(5)

\* vp is anime.visual_profile after the fetch that score_anime makes when
\* the profile has colour preferences and the item has no visual profile
ColorScore(vp, p) ==
    IF p.color_preferences = <<>> \/ vp = NoProfile
    THEN Zero
    ELSE LET color_palettes == PrefDict(p.color_preferences, "palette")
             style_preferences == PrefDict(p.color_preferences, "style")
         IN  IF DOMAIN color_palettes # {} \/ DOMAIN style_preferences # {}
             THEN CalculatePreferenceMatch(vp, color_palettes, style_preferences)
             ELSE Zero

(***************************************************************************)
(* RecommendationEngine.score_anime: the weighted combination.  Option     *)
(* weights are in tenths.  The division raises ZeroDivisionError when the  *)
(* weights sum to 0.0.                                                     *)
(***************************************************************************)
WeightTotal(opts) ==
    opts.genre_weight + opts.studio_weight + opts.mood_weight
        + opts.sentiment_weight + opts.color_weight

\* the local variables genre_score ... color_score of score_anime
Signals(o, cat, feats, vp, p) ==
    [genre_score |-> GenreScore(o, p),
     studio_score |-> StudioScore(o, p),
     mood_score |-> CalculateMoodRelevance(feats[o], p.current_mood),
     sentiment_score |-> SentimentScore(o, cat, feats, p),
     color_score |-> ColorScore(vp, p)]

\* the numerator of total_score
WeightedSum(sig, opts) ==
    RAdd(RAdd(RAdd(RAdd(
        RMul(Tenths(opts.genre_weight), sig.genre_score),
        RMul(Tenths(opts.studio_weight), sig.studio_score)),
        RMul(Tenths(opts.mood_weight), sig.mood_score)),
        RMul(Tenths(opts.sentiment_weight), sig.sentiment_score)),
        RMul(Tenths(opts.color_weight), sig.color_score))

\* total_score = WeightedSum / (sum of the weights)
Combine(ws, opts) == Rat(ws[1] * 10, ws[2] * WeightTotal(opts))

CombineSignals(sig, opts) ==
    IF WeightTotal(opts) = 0
    THEN [raised |-> TRUE, score |-> Zero, signals |-> sig]
    ELSE [raised |-> FALSE, score |-> Combine(WeightedSum(sig, opts), opts),
          signals |-> sig]

ScoreAnime(o, cat, feats, vp, p, opts) ==
    CombineSignals(Signals(o, cat, feats, vp, p), opts)

(***************************************************************************)
(* Bounds of the model and the input sets that the actions draw from.      *)
(***************************************************************************)
MaxCatalog == 3
MaxLimit == 3

\* the objects registered, the ids rated and the ratings given
RankObjs == {1, 2, 3, 4, 5}
RatedIds == {"1", "2"}
RatingInputs == {2, 5}
\* update_genre_preference(genre, weight) calls, weight in tenths
GenreInputs == {<<"action", 9>>, <<"drama", -15>>}

\* the five signal weights in tenths, in the order genre, studio, mood,
\* sentiment, color
Weights(g, st, m, se, c) == <<g, st, m, se, c>>
\* RecommendationOptions' defaults, all weights 0, and the weights of
\* test_get_recommendations_by_genre
DefaultWeights == Weights(5, 2, 5, 5, 3)
ZeroWeights == Weights(0, 0, 0, 0, 0)
GenreTestWeights == Weights(9, 1, 1, 1, 3)
RankWeights == {ZeroWeights, GenreTestWeights}

Options(limit, include_watched, w, generate_explanations) ==
    [limit |-> limit, include_watched |-> include_watched,
     generate_explanations |-> generate_explanations,
     genre_weight |-> w[1], studio_weight |-> w[2], mood_weight |-> w[3],
     sentiment_weight |-> w[4], color_weight |-> w[5]]

(***************************************************************************)
(* State.                                                                  *)
(*   catalog        self._anime_catalog                                    *)
(*   features       anime.features of every Anime object                   *)
(*   visualProfile  anime.visual_profile of every Anime object             *)
(*   simCache       anime._similarity_cache of every Anime object          *)
(*   prefs          the UserPreferences object                             *)
(*   demoMode       self._demo_mode                                        *)
(*   youtubeClient  self.youtube_client is not None                        *)
(*   openaiClient   self.openai_client is not None                         *)
(*   engineSingleton  the module global _recommendation_engine: Nothing or *)
(*                  Some(n), n numbering the instances constructed for it  *)
(*   trailerCache   self._trailer_cache                                    *)
(*   eventLoop      self._event_loop                                       *)
(*   closing        self._closing                                          *)
(*   constructed    __init__ ran to its end; FALSE for the object that a   *)
(*                  constructor which raised leaves to __del__             *)
(*   fetchLoopsOpen the number of event loops that trailer fetches have    *)
(*                  created and not closed                                 *)
(*   ret            what the last call returned or raised                  *)
(***************************************************************************)
VARIABLES catalog, features, visualProfile, simCache, prefs,
          demoMode, youtubeClient, openaiClient, trailerCache, eventLoop,
          closing, constructed, fetchLoopsOpen, engineSingleton, ret

vars == <<catalog, features, visualProfile, simCache, prefs,
          demoMode, youtubeClient, openaiClient, trailerCache, eventLoop,
          closing, constructed, fetchLoopsOpen, engineSingleton, ret>>

animeVars == <<features, visualProfile, simCache>>
bridgeVars ==
    <<demoMode, youtubeClient, openaiClient, trailerCache, eventLoop, closing,
      constructed, fetchLoopsOpen, engineSingleton>>

\* UserPreferences(user_id=...): every field at its default
NewUserPreferences ==
    [anime_ratings |-> EmptyDict, genre_preferences |-> EmptyDict,
     theme_preferences |-> EmptyDict,
     current_mood |-> "any", favorite_studios |-> {},
     color_preferences |-> <<>>]

\* the Anime objects as constructed
InitAnimes ==
    /\ features = [o \in Objs |-> AnimePool[o].features]
    /\ visualProfile = [o \in Objs |-> AnimePool[o].visual_profile]
    /\ simCache = [o \in Objs |-> EmptyDict]

\* RecommendationEngine.__init__(demo_mode); client tells whether
\* YOUTUBE_API_KEY is set, so that a YouTubeClient is created, and openai
\* whether get_openai_client answered a client
InitEngine(demo_mode, client, openai) ==
    /\ catalog = <<>>
    /\ demoMode = demo_mode
    /\ youtubeClient = client
    /\ openaiClient = openai
    /\ trailerCache = EmptyDict
    /\ eventLoop = None
    /\ closing = FALSE
    /\ constructed = TRUE
    /\ fetchLoopsOpen = 0
    /\ engineSingleton = Nothing

NoCall == [op |-> "none"]

(***************************************************************************)
(* RecommendationEngine._fetch_visual_profile_sync                         *)
(***************************************************************************)
\* ord(c) of the characters that occur in the model's titles
Ord ==
    [c \in {"T", "e", "s", "t", " ", "A", "n", "i", "m", "1", "2", "3", "4"} |->
        CASE c = "T" -> 84  [] c = "e" -> 101 [] c = "s" -> 115 [] c = "t" -> 116
          [] c = " " -> 32  [] c = "A" -> 65  [] c = "n" -> 110 [] c = "i" -> 105
          [] c = "m" -> 109 [] c = "1" -> 49  [] c = "2" -> 50  [] c = "3" -> 51
          [] c = "4" -> 52]

\* sum(ord(c) for c in anime.title) % 100
TitleHash(title) == SumSeq([i \in DOMAIN title |-> Ord[title[i]]]) % 100

VisualProfile(palettes, styles) ==
    [color_palettes |-> palettes, visual_styles |-> styles]

\* the demo-mode profile, chosen by the title hash
MockVisualProfile(title) ==
    LET h == TitleHash(title)
    IN  IF h < 20 THEN VisualProfile([warm |-> 8, vibrant |-> 6, earthy |-> 5],
                                     [retro |-> 7, detailed |-> 4])
        ELSE IF h < 40 THEN VisualProfile([cool |-> 8, muted |-> 5, monochrome |-> 3],
                                          [modern |-> 8, minimalist |-> 5])
        ELSE IF h < 60 THEN VisualProfile([vibrant |-> 9, neon |-> 6, high_contrast |-> 7],
                                          [stylized |-> 9, experimental |-> 6])
        ELSE IF h < 80 THEN VisualProfile([dark |-> 9, monochrome |-> 5, muted |-> 4],
                                          [realistic |-> 7, detailed |-> 6])
        ELSE VisualProfile([pastel |-> 9, vibrant |-> 3, cool |-> 5],
                           [chibi |-> 7, watercolor |-> 6])

\* a profile that the thumbnail analysis may produce for an item with an image
AnalysedProfile == VisualProfile([vibrant |-> 10, dark |-> 2], [modern |-> 6])

\* what _fetch_visual_profile_sync(anime) may return: the mock profile in
\* demo mode; otherwise None without an image_url, and with one either the
\* analysed profile or None (analysis failed or raised)
VisualFetchOutcomes(o, demo_mode) ==
    IF demo_mode THEN {MockVisualProfile(AnimePool[o].title)}
    ELSE IF AnimePool[o].image_url = None THEN {NoProfile}
    ELSE {NoProfile, AnalysedProfile}

(***************************************************************************)
(* RecommendationEngine._generate_explanation.  An explanation is the      *)
(* record of what its text is built from: the branch, the genres and       *)
(* studios named, the mood named and the provider's text.                  *)
(***************************************************************************)
Explanation(kind, genres, studios, mood, text) ==
    [kind |-> kind, genres |-> genres, studios |-> studios, mood |-> mood,
     text |-> text]

\* what openai_client.analyze_text does: answer a text or raise
ExplainOutcomes == {"text", "raise"}

\* the generic explanation when there is no client or in demo mode
GenericExplanation(o, p) ==
    LET matching == SelectSeq(AnimePool[o].genres,
                              LAMBDA g : DictGet(p.genre_preferences, g, 0) > 5)
    IN  IF matching # <<>>
        THEN Explanation("matches your preferences",
                         SubSeq(matching, 1, Min(2, Len(matching))), <<>>,
                         p.current_mood, "")
        ELSE Explanation("fresh perspective",
                         SubSeq(AnimePool[o].genres, 1,
                                Min(2, Len(AnimePool[o].genres))), <<>>,
                         p.current_mood, "")

\* mutant: the except clause looks at the genres only
FallbackExplanationGenresOnly(o, p) ==
    LET genres == SelectSeq(AnimePool[o].genres,
                            LAMBDA g : DictGet(p.genre_preferences, g, 0) > 0)
    IN  Explanation("fallback", SubSeq(genres, 1, Min(1, Len(genres))), <<>>, "", "")

\* the explanation of the except clause
FallbackExplanation(o, p) ==
    LET genres == SelectSeq(AnimePool[o].genres,
                            LAMBDA g : DictGet(p.genre_preferences, g, 0) > 0)
        studios == SelectSeq(AnimePool[o].studios,
                             LAMBDA st : st \in p.favorite_studios)
    IN  Explanation("fallback", SubSeq(genres, 1, Min(1, Len(genres))),
                    SubSeq(studios, 1, Min(1, Len(studios))), "", "")

\* mutant: the provider's error is not caught; the caller sees it
GenerateExplanationUncaught(o, p, demo_mode, openai, outcome) ==
    IF ~openai \/ demo_mode
    THEN GenericExplanation(o, p)
    ELSE IF outcome = "text"
    THEN Explanation("provider", <<>>, <<>>, "", "provider text")
    ELSE Explanation("raised", <<>>, <<>>, "", "APIError")

GenerateExplanation(o, p, demo_mode, openai, outcome) ==
    IF ~openai \/ demo_mode
    THEN GenericExplanation(o, p)
    ELSE IF outcome = "text"
    THEN Explanation("provider", <<>>, <<>>, "", "provider text")
    ELSE FallbackExplanation(o, p)

(***************************************************************************)
(* RecommendationEngine.get_recommendations                                *)
(***************************************************************************)
\* mutant: only the items rated LOVE or FAVORITE count as watched
WatchedIdsLikedOnly(p, opts) ==
    IF ~opts.include_watched
    THEN {id \in DOMAIN p.anime_ratings : p.anime_ratings[id] >= 4}
    ELSE {}

\* mutant: include_watched is ignored
WatchedIdsAlways(p, opts) == DOMAIN p.anime_ratings

WatchedIds(p, opts) ==
    IF ~opts.include_watched THEN DOMAIN p.anime_ratings ELSE {}

\* the catalog entries that the loop does not skip, in catalog order
Candidates(cat, p, opts) ==
    SelectSeq(cat, LAMBDA e : e.id \notin WatchedIds(p, opts))

\* the place where list.sort(key=score, reverse=True), being stable,
\* leaves r among the already sorted results: after every result whose
\* score is greater than or equal to r's
\* mutant: r is placed before the results of equal score (an unstable sort)
InsertBeforeEqual(sorted, r) ==
    LET k == Cardinality({i \in DOMAIN sorted : RLt(r.score, sorted[i].score)})
    IN  SubSeq(sorted, 1, k) \o <<r>> \o SubSeq(sorted, k + 1, Len(sorted))

InsertByScore(sorted, r) ==
    LET k == Cardinality({i \in DOMAIN sorted : RLe(r.score, sorted[i].score)})
    IN  SubSeq(sorted, 1, k) \o <<r>> \o SubSeq(sorted, k + 1, Len(sorted))

RECURSIVE SortByScore(_)
SortByScore(results) ==
    IF results = <<>>
    THEN <<>>
    ELSE InsertByScore(SortByScore(SubSeq(results, 1, Len(results) - 1)),
                       results[Len(results)])

\* mutant: results[-limit:], the tail instead of the head
TruncateTail(results, limit) ==
    SubSeq(results, Len(results) - Min(Max(limit, 0), Len(results)) + 1, Len(results))

\* results[:limit]
Truncate(results, limit) ==
    IF limit >= 0
    THEN SubSeq(results, 1, Min(limit, Len(results)))
    ELSE SubSeq(results, 1, Max(0, Len(results) + limit))

\* the objects whose visual profile score_anime fetches during this call
NeedsVisualFetch(cat, vis, p, opts) ==
    IF p.color_preferences = <<>>
    THEN {}
    ELSE {o \in Range([i \in DOMAIN Candidates(cat, p, opts) |->
                          Candidates(cat, p, opts)[i].obj]) : vis[o] = NoProfile}

\* the result list before sorting; vis is visualProfile after the fetches
ScoredResults(cat, feats, vis, p, opts) ==
    LET cands == Candidates(cat, p, opts)
    IN  [i \in DOMAIN cands |->
            [anime |-> cands[i].obj,
             score |-> ScoreAnime(cands[i].obj, cat, feats, vis[cands[i].obj],
                                  p, opts).score]]

RankedResults(cat, feats, vis, p, opts) ==
    Truncate(SortByScore(ScoredResults(cat, feats, vis, p, opts)), opts.limit)

\* score_anime raises for the first candidate when the weights sum to 0
RankingRaises(cat, p, opts) ==
    Candidates(cat, p, opts) # <<>> /\ WeightTotal(opts) = 0

\* the objects for which score_anime calls openai_client.analyze_text
AsksProvider(cat, p, demo_mode, openai, opts) ==
    IF opts.generate_explanations /\ openai /\ ~demo_mode /\ WeightTotal(opts) # 0
    THEN {Candidates(cat, p, opts)[i].obj : i \in DOMAIN Candidates(cat, p, opts)}
    ELSE {}

\* the results with the explanation score_anime returned for each
Explained(results, p, demo_mode, openai, opts, explained) ==
    [i \in DOMAIN results |->
        [anime |-> results[i].anime, score |-> results[i].score,
         explanation |->
             IF opts.generate_explanations
             THEN Some(GenerateExplanation(results[i].anime, p, demo_mode, openai,
                                           IF results[i].anime \in DOMAIN explained
                                           THEN explained[results[i].anime]
                                           ELSE "not asked"))
             ELSE Nothing]]

\* neither score_anime nor get_recommendations catches what
\* _generate_explanation raises
ExplanationRaises(cat, p, demo_mode, openai, opts, explained) ==
    \E o \in DOMAIN explained :
        GenerateExplanation(o, p, demo_mode, openai, explained[o]).kind = "raised"

\* the call under options opts, fetched being what the visual-profile
\* fetches of this call answer and explained what the explanation provider
\* does for each item it is asked about
Recommend(opts, fetched, explained) ==
        /\ \A o \in DOMAIN fetched : fetched[o] \in VisualFetchOutcomes(o, demoMode)
        /\ LET vis == [o \in Objs |-> IF o \in DOMAIN fetched
                                      THEN fetched[o] ELSE visualProfile[o]]
           IN  IF RankingRaises(catalog, prefs, opts)
               THEN /\ ret' = [op |-> "get_recommendations", opts |-> opts,
                               explained |-> explained,
                               raised |-> "ZeroDivisionError", value |-> <<>>]
                    \* the first candidate's profile was fetched before the division
                    /\ LET first == Candidates(catalog, prefs, opts)[1].obj
                       IN  visualProfile' =
                               IF first \in DOMAIN fetched
                               THEN [visualProfile EXCEPT ![first] = fetched[first]]
                               ELSE visualProfile
               ELSE IF ExplanationRaises(catalog, prefs, demoMode, openaiClient,
                                         opts, explained)
               THEN /\ ret' = [op |-> "get_recommendations", opts |-> opts,
                               explained |-> explained,
                               raised |-> "APIError", value |-> <<>>]
                    /\ visualProfile' = vis
               ELSE /\ ret' = [op |-> "get_recommendations", opts |-> opts,
                               explained |-> explained,
                               raised |-> None,
                               value |-> Explained(RankedResults(catalog, features,
                                                                 vis, prefs, opts),
                                                   prefs, demoMode, openaiClient,
                                                   opts, explained)]
                    /\ visualProfile' = vis
        /\ UNCHANGED <<catalog, features, simCache, prefs, bridgeVars>>

GetRecommendations(limit, include_watched, w, generate_explanations) ==
    \E fetched \in [NeedsVisualFetch(catalog, visualProfile, prefs,
                                     Options(limit, include_watched, w,
                                             generate_explanations)) ->
                        UNION {VisualFetchOutcomes(o, demoMode) : o \in Objs}],
       explained \in [AsksProvider(catalog, prefs, demoMode, openaiClient,
                                   Options(limit, include_watched, w,
                                           generate_explanations)) ->
                        ExplainOutcomes] :
        Recommend(Options(limit, include_watched, w, generate_explanations),
                  fetched, explained)

(***************************************************************************)
(* Catalog registration and the profile's write operations                 *)
(***************************************************************************)
AddAnime(o) ==
    /\ Len(CatalogPut(catalog, o)) <= MaxCatalog
    /\ catalog' = CatalogPut(catalog, o)
    /\ ret' = [op |-> "add_anime", obj |-> o]
    /\ UNCHANGED <<animeVars, prefs, bridgeVars>>

\* mutant: the loop runs over the batch from its last element to its first
RECURSIVE BatchPutReversed(_, _)
BatchPutReversed(cat, os) ==
    IF os = <<>> THEN cat
    ELSE CatalogPut(BatchPutReversed(cat, Tail(os)), Head(os))

\* for anime in animes: self._anime_catalog[anime.id] = anime
RECURSIVE BatchPut(_, _)
BatchPut(cat, os) ==
    IF os = <<>> THEN cat
    ELSE BatchPut(CatalogPut(cat, Head(os)), Tail(os))

\* RecommendationEngine.add_anime_batch with a list of n objects
BatchObjs == {1, 2, 4}
MaxBatch == 3
AddAnimeBatch(n) ==
    /\ n \in 0..MaxBatch
    /\ \E os \in [1..n -> BatchObjs] :
           /\ Len(BatchPut(catalog, os)) <= MaxCatalog
           /\ catalog' = BatchPut(catalog, os)
           /\ ret' = [op |-> "add_anime_batch", batch |-> os]
    /\ UNCHANGED <<animeVars, prefs, bridgeVars>>

\* UserPreferences.add_rating
AddRating(id, score) ==
    /\ prefs' = [prefs EXCEPT !.anime_ratings = DictSet(@, id, score)]
    /\ ret' = [op |-> "add_rating"]
    /\ UNCHANGED <<catalog, animeVars, bridgeVars>>

\* weight = max(-1.0, min(1.0, weight))
Clamp(weight) == Max(-10, Min(10, weight))

UpdateGenrePreference(genre, weight) ==
    /\ prefs' = [prefs EXCEPT !.genre_preferences = DictSet(@, genre, Clamp(weight))]
    /\ ret' = [op |-> "update_genre_preference", key |-> genre, weight |-> weight]
    /\ UNCHANGED <<catalog, animeVars, bridgeVars>>

UpdateThemePreference(theme, weight) ==
    /\ prefs' = [prefs EXCEPT !.theme_preferences = DictSet(@, theme, Clamp(weight))]
    /\ ret' = [op |-> "update_theme_preference", key |-> theme, weight |-> weight]
    /\ UNCHANGED <<catalog, animeVars, bridgeVars>>

\* ColorPreference(palette=tag, weight=weight) or
\* VisualStylePreference(style=tag, weight=weight), appended to the list
\* that the profile holds as color_preferences; the models declare weight
\* as a plain float, without validator or bounds
MaxVisualPrefs == 2
AddColorPreference(kind, tag, weight) ==
    /\ Len(prefs.color_preferences) < MaxVisualPrefs
    /\ prefs' = [prefs EXCEPT !.color_preferences =
                     Append(@, [kind |-> kind, tag |-> tag, weight |-> weight])]
    /\ ret' = [op |-> "color_preference", key |-> tag, weight |-> weight]
    /\ UNCHANGED <<catalog, animeVars, bridgeVars>>

\* UserPreferences.add_favorite_studio
AddFavoriteStudio(studio) ==
    /\ prefs' = [prefs EXCEPT !.favorite_studios = @ \cup {studio}]
    /\ ret' = [op |-> "add_favorite_studio"]
    /\ UNCHANGED <<catalog, animeVars, bridgeVars>>

SetMood(mood) ==
    /\ prefs' = [prefs EXCEPT !.current_mood = mood]
    /\ ret' = [op |-> "set_mood"]
    /\ UNCHANGED <<catalog, animeVars, bridgeVars>>

(***************************************************************************)
(* Spec: the ranking pipeline of an engine built as in the tests           *)
(* (RecommendationEngine(), no YOUTUBE_API_KEY).                           *)
(***************************************************************************)
Init ==
    /\ InitAnimes
    /\ InitEngine(FALSE, FALSE, TRUE)
    /\ prefs = NewUserPreferences
    /\ ret = NoCall

Next ==
    \/ \E o \in RankObjs : AddAnime(o)
    \/ \E id \in RatedIds, score \in RatingInputs : AddRating(id, score)
    \/ \E limit \in -1..MaxLimit, iw \in BOOLEAN, w \in RankWeights :
           GetRecommendations(limit, iw, w, FALSE)

Spec == Init /\ [][Next]_vars

(***************************************************************************)
(* Properties of the ranking pipeline (checked under Spec).  After a       *)
(* get_recommendations call, ret holds its options and what it returned;   *)
(* the call changes neither the catalog nor the profile, so the state's    *)
(* catalog and prefs are those the call ran on.                            *)
(***************************************************************************)
Returned == ret.op = "get_recommendations" /\ ret.raised = None
ResultId(i) == AnimePool[ret.value[i].anime].id
\* how often a catalog entry's object occurs in the returned list
Occurrences(o) == Cardinality({i \in DOMAIN ret.value : ret.value[i].anime = o})
\* the scores of all non-excluded items under the call's options
CallScores == ScoredResults(catalog, features, visualProfile, prefs, ret.opts)
\* rs is the first min(limit, number of scored items) of a top-K of scores
IsTopK(rs, scores, limit) ==
    /\ Len(rs) = Min(limit, Len(scores))
    /\ \A c \in DOMAIN scores :
           (\A i \in DOMAIN rs : rs[i].anime # scores[c].anime)
               => \A i \in DOMAIN rs : ~RLt(rs[i].score, scores[c].score)
\* scores has an item that is not in rs and scores less than all of rs
LeavesOutSmaller(rs, scores) ==
    \E c \in DOMAIN scores :
        /\ \A i \in DOMAIN rs : rs[i].anime # scores[c].anime
        /\ \A i \in DOMAIN rs : RLt(scores[c].score, rs[i].score)

\* C2: with include_watched = false, no item whose id is a key of the
\* profile's ratings is in the returned list, whatever the rating value
C2_WatchedExcluded ==
    (Returned /\ ~ret.opts.include_watched)
        => \A i \in DOMAIN ret.value : ResultId(i) \notin DOMAIN prefs.anime_ratings

\* a returned non-empty list, while the catalog holds an item rated
\* DISLIKE-to-LIKE (2) and an item rated FAVORITE (5)
C2_Witness ==
    /\ Returned /\ ~ret.opts.include_watched
    /\ ret.value # <<>>
    /\ \E a, b \in DOMAIN prefs.anime_ratings \cap CatalogIds(catalog) :
           prefs.anime_ratings[a] = 2 /\ prefs.anime_ratings[b] = 5

\* C3 as stated: with include_watched = true, every registered item is in
\* the returned list exactly once
C3_AllOnce_Original ==
    (Returned /\ ret.opts.include_watched)
        => \A i \in DOMAIN catalog : Occurrences(catalog[i].obj) = 1

\* C3 amended: with include_watched = true and limit at least the number
\* of registered items, every registered item (rated or not) is in the
\* returned list exactly once
C3_AllOnceWithinLimit ==
    (Returned /\ ret.opts.include_watched /\ ret.opts.limit >= Len(catalog))
        => /\ \A i \in DOMAIN catalog : Occurrences(catalog[i].obj) = 1
           /\ Len(ret.value) = Len(catalog)

\* a full catalog with a rated item, ranked with include_watched = true
C3_Witness ==
    /\ Returned /\ ret.opts.include_watched
    /\ Len(catalog) = MaxCatalog /\ ret.opts.limit >= Len(catalog)
    /\ DOMAIN prefs.anime_ratings \cap CatalogIds(catalog) # {}
    /\ Len(ret.value) = MaxCatalog

\* C4: the returned list is ordered by non-increasing score, and two
\* returned items of equal score are in catalog order (the order of the
\* catalog's entries, an id keeping the place of its first registration)
C4_SortedStable ==
    Returned =>
        \A i, j \in DOMAIN ret.value :
            i < j =>
                /\ RLe(ret.value[j].score, ret.value[i].score)
                /\ ret.value[i].score = ret.value[j].score
                       => CatalogGet(catalog, ResultId(i)) < CatalogGet(catalog, ResultId(j))

\* a returned list with two items of equal score after an item of a
\* greater score
C4_Witness ==
    /\ Returned
    /\ \E i, j, k \in DOMAIN ret.value :
           /\ i < j /\ j < k
           /\ RLt(ret.value[j].score, ret.value[i].score)
           /\ ret.value[j].score = ret.value[k].score

\* C5 as stated: for every limit >= 0, get_recommendations returns
\* min(limit, number of non-excluded items) results, and no non-excluded
\* item left out has a score strictly greater than a returned item's
C5_ReturnsTopK ==
    (ret.op = "get_recommendations" /\ ret.opts.limit >= 0)
        => /\ ret.raised = None
           /\ IsTopK(ret.value, CallScores, ret.opts.limit)

\* the part of C5 that the code keeps: a call with limit >= 0 that
\* returns, returns a top-K of min(limit, number of non-excluded items)
\* entries
TopKWhenReturned ==
    (Returned /\ ret.opts.limit >= 0) => IsTopK(ret.value, CallScores, ret.opts.limit)

\* a call that leaves out an item of strictly smaller score than each of
\* the two it returns
TopKWhenReturned_Witness ==
    /\ Returned /\ ret.opts.limit = 2 /\ Len(ret.value) = 2
    /\ LeavesOutSmaller(ret.value, CallScores)

\* C9 as stated: with all five weights 0, get_recommendations returns and
\* every item's total is 0.0
C9_ZeroWeightsTotalZero ==
    (ret.op = "get_recommendations" /\ WeightTotal(ret.opts) = 0)
        => /\ ret.raised = None
           /\ \A i \in DOMAIN ret.value : ret.value[i].score = Zero

(***************************************************************************)
(* SpecScore: score_anime as a function of its inputs.  The catalog holds  *)
(* objects 1, 2, 3 and 5; Init draws the profile's ratings, studios and    *)
(* colour preferences; the actions set the mood, update a genre            *)
(* preference and score one object under one weights configuration.        *)
(***************************************************************************)
RECURSIVE RegisterAll(_)
RegisterAll(os) ==
    IF os = <<>> THEN <<>>
    ELSE CatalogPut(RegisterAll(SubSeq(os, 1, Len(os) - 1)), os[Len(os)])

ScoreCatalog == RegisterAll(<<1, 2, 3, 5>>)
ScoreObjs == {1, 2, 4, 5}
ScoreMoods == {"any", "happy", "sad"}
ScoreRatings ==
    {EmptyDict, [x \in {"1"} |-> 5], [x \in {"2"} |-> 2],
     [x \in {"1", "2"} |-> IF x = "1" THEN 5 ELSE 2]}
ScoreStudios == {{}, {"Studio A"}}
ScoreColorPreferences ==
    {<<>>,
     <<[kind |-> "palette", tag |-> "warm", weight |-> 10]>>,
     <<[kind |-> "palette", tag |-> "vibrant", weight |-> -10],
       [kind |-> "style", tag |-> "modern", weight |-> 5]>>}
\* each signal alone, the defaults, and the weights of the tests
ScoreWeights ==
    {Weights(10, 0, 0, 0, 0), Weights(0, 10, 0, 0, 0), Weights(0, 0, 10, 0, 0),
     Weights(0, 0, 0, 10, 0), Weights(0, 0, 0, 0, 10),
     DefaultWeights, GenreTestWeights, ZeroWeights}

\* what the call leaves in ret, r being score_anime's outcome
ScoreReturn(o, opts, r) ==
    [op |-> "score_anime", anime |-> o, opts |-> opts,
     raised |-> IF r.raised THEN "ZeroDivisionError" ELSE None,
     score |-> r.score, signals |-> r.signals]

ScoreAnimeCall(o, w) ==
    \E fetched \in VisualFetchOutcomes(o, demoMode) :
        LET vp == IF prefs.color_preferences # <<>> /\ visualProfile[o] = NoProfile
                  THEN fetched
                  ELSE visualProfile[o]
        IN  /\ visualProfile' = [visualProfile EXCEPT ![o] = vp]
            /\ ret' = ScoreReturn(o, Options(10, FALSE, w, FALSE),
                                  ScoreAnime(o, catalog, features, vp, prefs,
                                             Options(10, FALSE, w, FALSE)))
            /\ UNCHANGED <<catalog, features, simCache, prefs, bridgeVars>>

InitScore ==
    /\ InitAnimes
    /\ demoMode = FALSE /\ youtubeClient = FALSE /\ openaiClient = TRUE
    /\ trailerCache = EmptyDict /\ eventLoop = None /\ closing = FALSE
    /\ constructed = TRUE /\ fetchLoopsOpen = 0
    /\ engineSingleton = Nothing
    /\ catalog = ScoreCatalog
    /\ \E r \in ScoreRatings, st \in ScoreStudios, c \in ScoreColorPreferences :
           prefs = [anime_ratings |-> r, genre_preferences |-> EmptyDict,
                    theme_preferences |-> EmptyDict,
                    current_mood |-> "any", favorite_studios |-> st,
                    color_preferences |-> c]
    /\ ret = NoCall

NextScore ==
    \/ \E m \in ScoreMoods : SetMood(m)
    \/ \E g \in GenreInputs : UpdateGenrePreference(g[1], g[2])
    \/ \E o \in ScoreObjs, w \in ScoreWeights : ScoreAnimeCall(o, w)

SpecScore == InitScore /\ [][NextScore]_vars

Scored == ret.op = "score_anime" /\ ret.raised = None

\* C1 as stated: the combined match score that score_anime returns lies
\* in [0.0, 1.0]
C1_ScoreInUnitInterval ==
    Scored => RLe(Zero, ret.score) /\ RLe(ret.score, One)

\* the mean positivity over exactly the rated items whose rating is >= 4
\* and whose sentiment is known (the divisor is their number)
MeanQualifyingPositivity(cat, feats, p) ==
    LET Q == QualifyingRated(cat, feats, p)
        pos == [id \in Q |->
                  DictGet(feats[CatalogObj(cat, id)].sentiment, "positivity", 0)]
    IN  Rat(SumOver(Q, pos), 10 * Cardinality(Q))

\* C21 as stated: for a candidate with a known sentiment, the sentiment
\* signal is 1.0 - |avg - candidate_positivity| with avg the mean
\* positivity over the qualifying rated items, and 0.0 when no rated item
\* qualifies
C21_SentimentSignal ==
    (Scored /\ DOMAIN features[ret.anime].sentiment # {})
        => ret.signals.sentiment_score =
               IF QualifyingRated(catalog, features, prefs) = {}
               THEN Zero
               ELSE RSub(One,
                         RAbs(RSub(MeanQualifyingPositivity(catalog, features, prefs),
                                   Tenths(DictGet(features[ret.anime].sentiment,
                                                  "positivity", 0)))))

\* presence of a preference's tag in the visual profile (0.0 when missing)
\* and its match: presence for a weight >= 0, 1.0 - presence for a
\* negative one (tenths)
PresenceOf(pref, vp) ==
    DictGet(IF pref.kind = "palette" THEN vp.color_palettes ELSE vp.visual_styles,
            pref.tag, 0)
PrefMatch(pref, vp) ==
    IF pref.weight < 0 THEN 10 - PresenceOf(pref, vp) ELSE PresenceOf(pref, vp)

\* the preferences that count: of one tag and kind, the last one given
Counting(ps, kinds) ==
    {i \in DOMAIN ps :
        /\ ps[i].kind \in kinds
        /\ \A j \in DOMAIN ps :
               (j > i /\ ps[j].kind = ps[i].kind) => ps[j].tag # ps[i].tag}

AbsWeightSum(ps, kinds) ==
    SumOver(Counting(ps, kinds), [i \in Counting(ps, kinds) |-> Abs(ps[i].weight)])

\* the average of the matches of the preferences of the given kinds, with
\* |weight| as the averaging weight
WeightedMatchAverage(ps, kinds, vp) ==
    Rat(SumOver(Counting(ps, kinds),
                [i \in Counting(ps, kinds) |-> Abs(ps[i].weight) * PrefMatch(ps[i], vp)]),
        10 * AbsWeightSum(ps, kinds))

\* a successful score_anime call on an item with a visual profile, for a
\* profile with visual preferences of nonzero weight
VisualScored ==
    /\ Scored
    /\ visualProfile[ret.anime] # NoProfile
    /\ AbsWeightSum(prefs.color_preferences, {"palette", "style"}) > 0

\* C22 as stated: the visual signal is one weighted average over all the
\* palette and style preferences together
C22_SingleWeightedAverage ==
    VisualScored
        => ret.signals.color_score =
               WeightedMatchAverage(prefs.color_preferences, {"palette", "style"},
                                    visualProfile[ret.anime])

\* C22: the visual signal is the weighted average of the palette
\* preferences and that of the style preferences, combined as 0.6 and 0.4
\* when both kinds carry weight, and the average of the one kind that
\* carries weight otherwise
C22_PerKindAverages ==
    VisualScored
        => LET ps == prefs.color_preferences
               vp == visualProfile[ret.anime]
               pw == AbsWeightSum(ps, {"palette"})
               sw == AbsWeightSum(ps, {"style"})
           IN  ret.signals.color_score =
                   IF pw > 0 /\ sw > 0
                   THEN RAdd(RMul(Tenths(6), WeightedMatchAverage(ps, {"palette"}, vp)),
                             RMul(Tenths(4), WeightedMatchAverage(ps, {"style"}, vp)))
                   ELSE IF pw > 0 THEN WeightedMatchAverage(ps, {"palette"}, vp)
                   ELSE WeightedMatchAverage(ps, {"style"}, vp)

\* a palette disliked and a style liked, scored on an item whose profile
\* has the palette and lacks the style
C22_Witness ==
    /\ VisualScored
    /\ AbsWeightSum(prefs.color_preferences, {"palette"}) > 0
    /\ AbsWeightSum(prefs.color_preferences, {"style"}) > 0
    /\ \E i \in DOMAIN prefs.color_preferences :
           /\ prefs.color_preferences[i].weight < 0
           /\ PresenceOf(prefs.color_preferences[i], visualProfile[ret.anime]) > 0
    /\ RLt(Zero, ret.signals.color_score)

\* C8: when the profile's mood is ANY the mood signal is exactly 1.0,
\* whatever the item's emotion profile and theme scores
C8_MoodAnyIsOne ==
    (ret.op = "score_anime" /\ prefs.current_mood = "any")
        => ret.signals.mood_score = One

\* an item with an empty emotion profile and no themes scored under ANY
\* with a positive mood weight
C8_Witness ==
    /\ ret.op = "score_anime" /\ prefs.current_mood = "any"
    /\ DOMAIN features[ret.anime].emotion_profile = {}
    /\ DOMAIN features[ret.anime].themes = {}
    /\ ret.opts.mood_weight > 0

(***************************************************************************)
(* Anime.get_feature_vector and RecommendationEngine._compute_similarity.  *)
(* A similarity is the cosine dot / (sqrt(m1) * sqrt(m2)); it is modelled  *)
(* exactly by <<sign of dot, n, d>> with n/d = dot^2 / (m1 * m2) in lowest *)
(* terms, so that two similarities are equal iff their models are.         *)
(***************************************************************************)
\* the dict keys of the model in sorted() order
KeyOrder ==
    <<"action", "adventure", "anticipation", "comedy", "comfort", "drama",
      "excitement", "intensity", "joy", "melancholy", "positivity", "romance",
      "sadness", "slice_of_life", "trust">>

\* [d.get(k, 0.0) for k in sorted(d.keys())]
SortedValues(d) ==
    LET keys == SelectSeq(KeyOrder, LAMBDA k : k \in DOMAIN d)
    IN  [i \in DOMAIN keys |-> d[keys[i]]]

GetFeatureVector(feat) ==
    SortedValues(feat.genres) \o SortedValues(feat.themes)
        \o SortedValues(feat.sentiment) \o SortedValues(feat.emotion_profile)
        \o SortedValues(feat.target_demographic)

\* v padded with 0.0 to length n
Pad(v, n) == [i \in 1..n |-> IF i <= Len(v) THEN v[i] ELSE 0]

Dot(v1, v2) == SumSeq([i \in DOMAIN v1 |-> v1[i] * v2[i]])

Sign(x) == IF x > 0 THEN 1 ELSE IF x < 0 THEN -1 ELSE 0

SimZero == <<0, 0, 1>>
SimOne == <<1, 1, 1>>

\* dot_product / (magnitude1 * magnitude2), or 0.0 when the product of the
\* magnitudes is 0
CosineOf(dot, m1, m2) ==
    IF m1 * m2 = 0
    THEN SimZero
    ELSE <<Sign(dot), Rat(dot * dot, m1 * m2)[1], Rat(dot * dot, m1 * m2)[2]>>

PaddedCosine(v1, v2) == CosineOf(Dot(v1, v2), Dot(v1, v1), Dot(v2, v2))

Cosine(f1, f2) ==
    PaddedCosine(Pad(GetFeatureVector(f1), Max(Len(GetFeatureVector(f1)),
                                               Len(GetFeatureVector(f2)))),
                 Pad(GetFeatureVector(f2), Max(Len(GetFeatureVector(f1)),
                                               Len(GetFeatureVector(f2)))))

\* cache_key = f"{anime1.id}:{anime2.id}"; the model's ids hold no ":", so
\* the pair of ids stands for the string
CacheKey(a, b) == <<AnimePool[a].id, AnimePool[b].id>>

\* what _compute_similarity(a, b) returns when called in a state with
\* these caches and features
SimilarityValue(a, b, cache, feats) ==
    IF CacheKey(a, b) \in DOMAIN cache[a]
    THEN cache[a][CacheKey(a, b)]
    ELSE Cosine(feats[a], feats[b])

\* the caches after _compute_similarity(a, b) that returned v
CacheAfter(a, b, cache, v) ==
    IF CacheKey(a, b) \in DOMAIN cache[a]
    THEN cache
    ELSE LET c1 == [cache EXCEPT ![a] = DictSet(@, CacheKey(a, b), v)]
         IN  [c1 EXCEPT ![b] = DictSet(@, CacheKey(b, a), v)]

ComputeSimilarity(a, b) ==
    /\ ret' = [op |-> "_compute_similarity", a |-> a, b |-> b,
               value |-> SimilarityValue(a, b, simCache, features)]
    /\ simCache' = CacheAfter(a, b, simCache,
                              SimilarityValue(a, b, simCache, features))
    /\ UNCHANGED <<catalog, features, visualProfile, prefs, bridgeVars>>

(***************************************************************************)
(* SpecSim: registrations and similarity computations between registered   *)
(* items.                                                                  *)
(***************************************************************************)
SimObjs == {1, 2, 4, 6}
Registered == {catalog[i].obj : i \in DOMAIN catalog}

NextSim ==
    \/ \E o \in SimObjs : AddAnime(o)
    \/ \E a, b \in Registered : ComputeSimilarity(a, b)

SpecSim == Init /\ [][NextSim]_vars

\* C6 as stated: in every state, for every pair of registered items a and
\* b, _compute_similarity(a, b) and _compute_similarity(b, a) return the
\* same value
C6_Symmetric ==
    \A a, b \in Registered :
        SimilarityValue(a, b, simCache, features)
            = SimilarityValue(b, a, simCache, features)

\* C7 as stated: _compute_similarity(a, a) returns 1.0 for every
\* registered item a
C7_SelfSimilarityOne ==
    (ret.op = "_compute_similarity" /\ ret.a = ret.b) => ret.value = SimOne

(***************************************************************************)
(* Trailer lookup: _fetch_anime_trailer and _fetch_trailer_sync.           *)
(* A str is the sequence of its characters; an Optional value is Nothing   *)
(* or Some(v).  A URL f"{prefix}{video_id}" is the pair of its parts.      *)
(***************************************************************************)
\* the dict that both functions start from and return when nothing is found
AllNone ==
    [url |-> Nothing, thumbnail |-> Nothing, title |-> Nothing, channel |-> Nothing]

\* c.isalnum() and c.lower() on the characters of the model's titles
IsAlnum(c) == c # " "
Lower(c) == IF c = "T" THEN "t" ELSE IF c = "A" THEN "a" ELSE c

\* "".join(c.lower() if c.isalnum() else "_" for c in anime_title)[:10] + "_trailer"
MockVideoId(title) ==
    LET norm == [i \in DOMAIN title |->
                    IF IsAlnum(title[i]) THEN Lower(title[i]) ELSE "_"]
    IN  SubSeq(norm, 1, Min(10, Len(norm)))
            \o <<"_", "t", "r", "a", "i", "l", "e", "r">>

MockTrailer(title) ==
    [url |-> Some(<<"https://www.youtube.com/watch?v=", MockVideoId(title)>>),
     thumbnail |-> Some(<<"https://i.ytimg.com/vi/", MockVideoId(title),
                          "/hqdefault.jpg">>),
     title |-> Some(<<title, " Official Trailer">>),
     channel |-> Some("AnimeTrailers")]

\* what youtube_client.search_anime_trailer may do: raise (network, quota,
\* timeout), answer without data, or answer with a video whose thumbnails
\* hold a "high" and a "default" entry, only a "default" entry, or neither
Video(id, high, default) ==
    [kind |-> "video", id |-> id, title |-> <<"PV ", id>>,
     channelTitle |-> "Channel", high |-> high, default |-> default]
TrailerOutcomes ==
    {[kind |-> "raise"], [kind |-> "empty"],
     Video("v1", TRUE, TRUE), Video("v2", FALSE, TRUE), Video("v3", FALSE, FALSE)}

\* the trailer_info built from response.data[0]
TrailerInfoOf(video) ==
    [url |-> Some(<<"https://www.youtube.com/watch?v=", video.id>>),
     thumbnail |-> Some(<<"thumbnail", video.id,
                          IF video.high THEN "high" ELSE "default">>),
     title |-> Some(video.title),
     channel |-> Some(video.channelTitle)]

\* mutant: a failed lookup falls back to the mock trailer
OnLookupErrorMock(title) == MockTrailer(title)

\* except Exception: the error is logged and trailer_info keeps the value
\* it was initialised with
OnLookupError(title) == AllNone

\* the body of _fetch_anime_trailer after its cache and client checks:
\* [found, info]; thumbnails.get('high', thumbnails.get('default')) is None
\* for a video without either, and .url then raises inside the try
SearchTrailer(title, outcome) ==
    IF outcome.kind = "raise"
    THEN [found |-> FALSE, info |-> OnLookupError(title)]
    ELSE IF outcome.kind = "empty"
    THEN [found |-> FALSE, info |-> AllNone]
    ELSE IF ~outcome.high /\ ~outcome.default
    THEN [found |-> FALSE, info |-> OnLookupError(title)]
    ELSE [found |-> TRUE, info |-> TrailerInfoOf(outcome)]

\* _fetch_anime_trailer(title): [invoked, info, cache]
FetchAnimeTrailer(title, cache, client, outcome) ==
    IF title \in DOMAIN cache
    THEN [invoked |-> FALSE, info |-> cache[title], cache |-> cache]
    ELSE IF ~client
    THEN [invoked |-> FALSE, info |-> AllNone, cache |-> cache]
    ELSE [invoked |-> TRUE, info |-> SearchTrailer(title, outcome).info,
          cache |-> IF SearchTrailer(title, outcome).found
                    THEN DictSet(cache, title, SearchTrailer(title, outcome).info)
                    ELSE cache]

\* mutant: the mock data is used only when there is no client, so a demo
\* engine that holds a client asks the provider
FetchTrailerClientFirst(title, cache, demo_mode, client, loop, outcome) ==
    IF title \in DOMAIN cache
    THEN [invoked |-> FALSE, info |-> cache[title], cache |-> cache]
    ELSE IF ~client
    THEN [invoked |-> FALSE, info |-> MockTrailer(title),
          cache |-> DictSet(cache, title, MockTrailer(title))]
    ELSE FetchAnimeTrailer(title, cache, client, outcome)

\* mutant: neither function looks into the cache before the lookup
FetchTrailerUncached(title, cache, demo_mode, client, loop, outcome) ==
    IF demo_mode \/ ~client
    THEN [invoked |-> FALSE, info |-> MockTrailer(title),
          cache |-> DictSet(cache, title, MockTrailer(title))]
    ELSE [invoked |-> TRUE, info |-> SearchTrailer(title, outcome).info,
          cache |-> IF SearchTrailer(title, outcome).found
                    THEN DictSet(cache, title, SearchTrailer(title, outcome).info)
                    ELSE cache]

\* _fetch_trailer_sync(title): [invoked, info, cache].  With no owned loop
\* (or a closed one) the coroutine runs on a temporary loop; with an owned
\* open loop, which no thread runs, .result(30) times out and the except
\* clause answers AllNone.
FetchTrailer(title, cache, demo_mode, client, loop, outcome) ==
    IF title \in DOMAIN cache
    THEN [invoked |-> FALSE, info |-> cache[title], cache |-> cache]
    ELSE IF demo_mode \/ ~client
    THEN [invoked |-> FALSE, info |-> MockTrailer(title),
          cache |-> DictSet(cache, title, MockTrailer(title))]
    ELSE IF loop = None \/ loop = "closed"
    THEN FetchAnimeTrailer(title, cache, client, outcome)
    ELSE [invoked |-> FALSE, info |-> AllNone, cache |-> cache]

\* the loop that _fetch_trailer_sync runs the coroutine on: none when it
\* answers from the cache or with mock data, a temporary loop when there
\* is no owned loop or the owned loop is closed, else the owned loop
LoopUsed(title, cache, demo_mode, client, loop) ==
    IF title \in DOMAIN cache \/ demo_mode \/ ~client
    THEN "none"
    ELSE IF loop = None \/ loop = "closed"
    THEN "temporary"
    ELSE "owned"

\* mutant: the coroutine lets the error of the lookup out
CoroutineRaisesLookupError(outcome) == outcome.kind = "raise"

\* whether run_until_complete(self._fetch_anime_trailer(title)) raises:
\* the coroutine catches every Exception of the lookup
CoroutineRaises(outcome) == FALSE

\* the loops created by fetches and left open, after a fetch:
\* temp_loop.close() follows run_until_complete inside the try
FetchLoopsAfter(n, loop_used, raised) ==
    IF loop_used = "temporary" /\ raised THEN n + 1 ELSE n

\* mutant: the temporary loop becomes the engine's loop
OwnedLoopKeepsTemporary(loop, loop_used) ==
    IF loop_used = "temporary" THEN "open" ELSE loop

\* self._event_loop after a fetch: the fetch assigns nothing to it
OwnedLoopAfterFetch(loop, loop_used) == loop

FetchTrailerSync(title, outcome) ==
    LET r == FetchTrailer(title, trailerCache, demoMode, youtubeClient,
                          eventLoop, outcome)
        used == LoopUsed(title, trailerCache, demoMode, youtubeClient, eventLoop)
    IN  /\ constructed
        /\ trailerCache' = r.cache
        /\ eventLoop' = OwnedLoopAfterFetch(eventLoop, used)
        /\ fetchLoopsOpen' = FetchLoopsAfter(fetchLoopsOpen, used,
                                             CoroutineRaises(outcome))
        /\ ret' = [op |-> "_fetch_trailer_sync", title |-> title,
                   cached |-> title \in DOMAIN trailerCache,
                   lookup |-> IF r.invoked THEN outcome.kind ELSE "not invoked",
                   loop |-> used,
                   raised |-> None, value |-> r.info]
        /\ UNCHANGED <<catalog, animeVars, prefs, demoMode, youtubeClient, openaiClient,
                       closing, constructed, engineSingleton>>

(***************************************************************************)
(* SpecTrailer: trailer fetches on an engine of either mode, with or       *)
(* without a YouTube client.                                               *)
(***************************************************************************)
Titles == {AnimePool[o].title : o \in Objs}

InitTrailer ==
    /\ InitAnimes
    /\ \E d \in BOOLEAN, c \in BOOLEAN : InitEngine(d, c, ~d)
    /\ prefs = NewUserPreferences
    /\ ret = NoCall

NextTrailer ==
    \E t \in Titles, outcome \in TrailerOutcomes : FetchTrailerSync(t, outcome)

SpecTrailer == InitTrailer /\ [][NextTrailer]_vars

\* C10: in online mode, when the trailer lookup raises for a title,
\* _fetch_trailer_sync returns the record whose url, thumbnail, title and
\* channel are all None, and does not raise
C10_LookupErrorAllNone ==
    (ret.op = "_fetch_trailer_sync" /\ ret.lookup = "raise")
        => ret.raised = None /\ ret.value = AllNone

\* a lookup that raised on an online engine whose cache already holds a
\* trailer found for another title
C10_Witness ==
    /\ ret.op = "_fetch_trailer_sync" /\ ret.lookup = "raise"
    /\ ~demoMode /\ youtubeClient
    /\ DOMAIN trailerCache # {}
    /\ ret.title \notin DOMAIN trailerCache

(***************************************************************************)
(* SpecScenario: the ranking scenarios of the tests.  Items 1, 2 and 3 are *)
(* registered, the profile's genre preferences and mood are written, and   *)
(* get_recommendations is called with the scenarios' weights, with and     *)
(* without explanations, on an engine with an explanation client or on a   *)
(* demo engine without one.                                                *)
(***************************************************************************)
ScenarioObjs == {1, 2, 3}
ScenarioGenres == {<<"action", 9>>, <<"adventure", 8>>, <<"drama", -5>>}
\* genre 0.9 and mood 0.9, the others 0.1
GenreHeavyWeights == Weights(9, 1, 1, 1, 1)
MoodHeavyWeights == Weights(1, 1, 9, 1, 1)
ScenarioWeights == {GenreHeavyWeights, MoodHeavyWeights, GenreTestWeights}

InitScenario ==
    /\ InitAnimes
    /\ \E d \in BOOLEAN : InitEngine(d, FALSE, ~d)
    /\ prefs = NewUserPreferences
    /\ ret = NoCall

NextScenario ==
    \/ \E o \in ScenarioObjs : AddAnime(o)
    \/ \E g \in ScenarioGenres : UpdateGenrePreference(g[1], g[2])
    \/ \E m \in ScoreMoods : SetMood(m)
    \/ \E w \in ScenarioWeights, ge \in BOOLEAN : GetRecommendations(3, FALSE, w, ge)

SpecScenario == InitScenario /\ [][NextScenario]_vars

LocalExplanations == {"fallback", "matches your preferences", "fresh perspective"}

\* C14: a ranking call with explanations returns a result with a score
\* for every item whether the explanation client is absent or raises, and
\* the explanation of an item for which it is absent or raised is one of
\* the locally built ones
C14_ExplanationNeverFails ==
    (ret.op = "get_recommendations" /\ ret.opts.generate_explanations)
        => /\ ret.raised = None
           /\ Len(ret.value) = Len(catalog)
           /\ \A i \in DOMAIN ret.value :
                  /\ ret.value[i].explanation # Nothing
                  /\ (\/ ~openaiClient
                      \/ ret.explained[ret.value[i].anime] = "raise")
                         => ret.value[i].explanation[1].kind \in LocalExplanations

\* three items ranked while the client raised for one of them and
\* answered for another
C14_Witness ==
    /\ ret.op = "get_recommendations" /\ ret.opts.generate_explanations
    /\ openaiClient /\ Len(ret.value) = 3
    /\ \E i, j \in DOMAIN ret.value :
           /\ ret.explained[ret.value[i].anime] = "raise"
           /\ ret.explained[ret.value[j].anime] = "text"

WeightsOf(opts) ==
    Weights(opts.genre_weight, opts.studio_weight, opts.mood_weight,
            opts.sentiment_weight, opts.color_weight)

\* Items 1, 2 and 3 registered in that order, no ratings, and a ranking
\* with weights w just returned
ScenarioRanked(w) ==
    /\ ret.op = "get_recommendations" /\ ret.raised = None
    /\ WeightsOf(ret.opts) = w
    /\ catalog = RegisterAll(<<1, 2, 3>>)
    /\ DOMAIN prefs.anime_ratings = {}

\* genre_weights {action: 0.9, adventure: 0.8, drama: -0.5}, mood ANY
ScenarioA ==
    /\ ScenarioRanked(GenreHeavyWeights)
    /\ prefs.current_mood = "any"
    /\ DOMAIN prefs.genre_preferences = {"action", "adventure", "drama"}

RankedObjs == [i \in DOMAIN ret.value |-> ret.value[i].anime]

\* C15 as stated: in scenario A the ranking places Item1 first and Item2
\* last
C15_Item2Last_Original ==
    ScenarioA => RankedObjs[1] = 1 /\ RankedObjs[Len(RankedObjs)] = 2

\* C15: in scenario A the ranking places Item1 first and Item3 last:
\* Item2's negative genre signal is floored at 0, so Item2 and Item3 tie
\* and keep their registration order
C15_Item3Last ==
    ScenarioA => RankedObjs = <<1, 2, 3>>

C15_Witness ==
    /\ ScenarioA
    /\ Len(ret.value) = 3
    /\ RLe(ret.value[2].score, ret.value[3].score)
    /\ RLe(ret.value[3].score, ret.value[2].score)
    /\ RLt(ret.value[2].score, ret.value[1].score)

\* C16: with Items 1, 2 and 3 registered, mood weight 0.9 and the other
\* weights 0.1, the first-ranked item is Item3 when current_mood is HAPPY
\* and Item2 when current_mood is SAD
C16_MoodDecidesFirst ==
    ScenarioRanked(MoodHeavyWeights)
        => /\ prefs.current_mood = "happy" => RankedObjs[1] = 3
           /\ prefs.current_mood = "sad" => RankedObjs[1] = 2

\* the SAD ranking, computed while the profile also likes Item1's genres
C16_Witness ==
    /\ ScenarioRanked(MoodHeavyWeights)
    /\ prefs.current_mood = "sad"
    /\ DOMAIN prefs.genre_preferences = {"action", "adventure", "drama"}
    /\ RankedObjs = <<2, 1, 3>>

(***************************************************************************)
(* SpecProfile: the write operations on a profile's weights.               *)
(***************************************************************************)
\* 0.8, -0.7, 1.5 and -1.5 of test_update_genre_preference
WriteWeights == {8, -7, 15, -15}
ProfileGenres == {"action"}
ProfileThemes == {"fantasy"}
VisualInputs ==
    {<<"palette", "vibrant", 10>>, <<"palette", "dark", -10>>,
     <<"palette", "warm", 15>>, <<"style", "detailed", -15>>}

InitProfile ==
    /\ InitAnimes
    /\ InitEngine(FALSE, FALSE, TRUE)
    /\ prefs = NewUserPreferences
    /\ ret = NoCall

NextProfile ==
    \/ \E g \in ProfileGenres, w \in WriteWeights : UpdateGenrePreference(g, w)
    \/ \E t \in ProfileThemes, w \in WriteWeights : UpdateThemePreference(t, w)
    \/ \E v \in VisualInputs : AddColorPreference(v[1], v[2], v[3])

SpecProfile == InitProfile /\ [][NextProfile]_vars

InUnitRange(w) == -10 <= w /\ w <= 10

\* C17 as stated: every weight stored in the genre, theme and visual
\* preferences of a profile lies in [-1.0, 1.0], and a write above 1.0
\* or below -1.0 has stored 1.0 or -1.0
C17_WeightsClamped ==
    /\ \A g \in DOMAIN prefs.genre_preferences :
           InUnitRange(prefs.genre_preferences[g])
    /\ \A t \in DOMAIN prefs.theme_preferences :
           InUnitRange(prefs.theme_preferences[t])
    /\ \A i \in DOMAIN prefs.color_preferences :
           InUnitRange(prefs.color_preferences[i].weight)
    /\ ret.op = "update_genre_preference"
           => prefs.genre_preferences[ret.key] = Clamp(ret.weight)
    /\ ret.op = "update_theme_preference"
           => prefs.theme_preferences[ret.key] = Clamp(ret.weight)
    /\ ret.op = "color_preference"
           => prefs.color_preferences[Len(prefs.color_preferences)].weight
                  = Clamp(ret.weight)

\* the part of C17 that the code keeps: the weights written through
\* update_genre_preference and update_theme_preference are clamped
GenreThemeWeightsClamped ==
    /\ \A g \in DOMAIN prefs.genre_preferences :
           InUnitRange(prefs.genre_preferences[g])
    /\ \A t \in DOMAIN prefs.theme_preferences :
           InUnitRange(prefs.theme_preferences[t])
    /\ ret.op = "update_genre_preference"
           => prefs.genre_preferences[ret.key] = Clamp(ret.weight)
    /\ ret.op = "update_theme_preference"
           => prefs.theme_preferences[ret.key] = Clamp(ret.weight)

(***************************************************************************)
(* RecommendationEngine.analyze_anime_sentiment.  SentimentAnalyzer.analyze*)
(* either returns a validated SentimentResult or raises AnalysisError      *)
(* (src/src/ai/sentiment/analyzer.py); outcome 0 is the raise, outcome k   *)
(* the k-th result.                                                        *)
(***************************************************************************)
SentimentResult(positivity, intensity, emotions, themes, target_audience) ==
    [positivity |-> positivity, intensity |-> intensity, emotions |-> emotions,
     themes |-> themes, target_audience |-> target_audience]

SentimentResults ==
    << SentimentResult(8, 5, [joy |-> 7], [adventure |-> 7, romance |-> 2],
                       [teens |-> 6]),
       SentimentResult(-5, 10, [sadness |-> 7], [drama |-> 6, comedy |-> 4],
                       [adults |-> 5]),
       SentimentResult(2, 5, EmptyDict, [romance |-> 8, adventure |-> 3],
                       EmptyDict) >>

AnalyzerOutcomes == {0} \cup DOMAIN SentimentResults

\* dict.update with the themes whose score is above 0.5
UpdateThemes(themes, result_themes) ==
    LET high == {t \in DOMAIN result_themes : result_themes[t] > 5}
    IN  [t \in DOMAIN themes \cup high |->
            IF t \in high THEN result_themes[t] ELSE themes[t]]

\* mutant: the sentiment is reset before the analyzer is asked
AnalyzedFeaturesResetFirst(feat, outcome) ==
    IF outcome = 0
    THEN [feat EXCEPT !.sentiment = EmptyDict]
    ELSE LET result == SentimentResults[outcome]
         IN  [feat EXCEPT
                 !.sentiment = [positivity |-> result.positivity,
                                intensity |-> result.intensity],
                 !.emotion_profile = result.emotions,
                 !.themes = UpdateThemes(@, result.themes),
                 !.target_demographic = result.target_audience]

\* the item's features after the try block
AnalyzedFeatures(feat, outcome) ==
    IF outcome = 0
    THEN feat
    ELSE LET result == SentimentResults[outcome]
         IN  [feat EXCEPT
                 !.sentiment = [positivity |-> result.positivity,
                                intensity |-> result.intensity],
                 !.emotion_profile = result.emotions,
                 !.themes = UpdateThemes(@, result.themes),
                 !.target_demographic = result.target_audience]

\* what the except clause raises
AnalysisRaised(outcome) == IF outcome = 0 THEN "AnalysisError" ELSE None

AnalyzeAnimeSentiment(o, outcome) ==
    /\ IF AnimePool[o].synopsis = None
       THEN /\ outcome = 0
            /\ ret' = [op |-> "analyze_anime_sentiment", obj |-> o,
                       analyzer |-> "not invoked", raised |-> None]
            /\ features' = features
       ELSE /\ ret' = [op |-> "analyze_anime_sentiment", obj |-> o,
                       analyzer |-> IF outcome = 0 THEN "raise" ELSE "result",
                       raised |-> AnalysisRaised(outcome)]
            /\ features' = [features EXCEPT ![o] = AnalyzedFeatures(@, outcome)]
    /\ UNCHANGED <<catalog, visualProfile, simCache, prefs, bridgeVars>>

(***************************************************************************)
(* SpecSentiment: sentiment analyses of items with and without synopsis.   *)
(***************************************************************************)
SentimentObjs == {1, 4, 5}

NextSentiment ==
    \E o \in SentimentObjs, outcome \in AnalyzerOutcomes :
        AnalyzeAnimeSentiment(o, outcome)

SpecSentiment == Init /\ [][NextSentiment]_vars

\* C19: when the sentiment analyzer fails, analyze_anime_sentiment raises
\* AnalysisError and the item's sentiment, emotion_profile, themes and
\* target_demographic are what they were before the call
C19_FailureRaisesAndKeepsFeatures ==
    [][(ret'.op = "analyze_anime_sentiment" /\ ret'.analyzer = "raise")
          => /\ ret'.raised = "AnalysisError"
             /\ features'[ret'.obj] = features[ret'.obj]]_vars

\* the analyzer failed for an item whose features an earlier analysis had
\* written
C19_Witness ==
    /\ ret.op = "analyze_anime_sentiment" /\ ret.analyzer = "raise"
    /\ ret.raised = "AnalysisError"
    /\ features[ret.obj] # AnimePool[ret.obj].features
    /\ DOMAIN features[ret.obj].sentiment # {}

(***************************************************************************)
(* get_recommendation_engine and the module global _recommendation_engine. *)
(* Once the global is set, the engine variables are the fields of the      *)
(* instance it holds.                                                      *)
(***************************************************************************)
\* mutant: an engine is constructed on every call
MustConstructAlways(singleton) == TRUE

\* if _recommendation_engine is None
MustConstruct(singleton) == singleton = Nothing

\* RecommendationEngine(demo_mode=demo_mode) raises ConfigError when
\* get_openai_client finds no API key outside demo mode
ConstructorRaises(demo_mode, openai_key) == ~demo_mode /\ ~openai_key

MaxEngines == 2
NextInstance(singleton) == IF singleton = Nothing THEN 1 ELSE singleton[1] + 1

\* get_recommendation_engine(demo_mode), in an environment where the
\* OpenAI and YouTube API keys are configured or not
GetRecommendationEngine(demo_mode, openai_key, youtube_key) ==
    IF MustConstruct(engineSingleton)
    THEN IF ConstructorRaises(demo_mode, openai_key)
         THEN /\ ret' = [op |-> "get_recommendation_engine",
                         demo_mode |-> demo_mode,
                         raised |-> "ConfigError", value |-> Nothing]
              /\ UNCHANGED <<catalog, animeVars, prefs, bridgeVars>>
         ELSE /\ NextInstance(engineSingleton) <= MaxEngines
              /\ engineSingleton' = Some(NextInstance(engineSingleton))
              /\ catalog' = <<>>
              /\ demoMode' = demo_mode
              /\ openaiClient' = (~demo_mode)
              /\ youtubeClient' = youtube_key
              /\ trailerCache' = EmptyDict
              /\ eventLoop' = None
              /\ closing' = FALSE
              /\ constructed' = TRUE
              /\ fetchLoopsOpen' = 0
              /\ ret' = [op |-> "get_recommendation_engine",
                         demo_mode |-> demo_mode, raised |-> None,
                         value |-> Some(NextInstance(engineSingleton))]
              /\ UNCHANGED <<animeVars, prefs>>
    ELSE /\ ret' = [op |-> "get_recommendation_engine", demo_mode |-> demo_mode,
                    raised |-> None, value |-> engineSingleton]
         /\ UNCHANGED <<catalog, animeVars, prefs, bridgeVars>>

\* engine = get_recommendation_engine(); engine.add_anime_batch(anime_list)
RegisterOnSingleton(n) ==
    /\ engineSingleton # Nothing
    /\ AddAnimeBatch(n)

(***************************************************************************)
(* SpecSingleton: calls of get_recommendation_engine with either mode,     *)
(* and registrations on the engine it returned.                            *)
(***************************************************************************)
NextSingleton ==
    \/ \E d, k, y \in BOOLEAN : GetRecommendationEngine(d, k, y)
    \/ \E n \in 0..MaxBatch : RegisterOnSingleton(n)

SpecSingleton == Init /\ [][NextSingleton]_vars

\* C20: once get_recommendation_engine has created the engine, every
\* later call returns that instance whatever demo_mode it passes, and
\* the instance's mode stays the one of the call that created it
C20_SameInstanceSameMode ==
    [][engineSingleton # Nothing
          => /\ engineSingleton' = engineSingleton
             /\ demoMode' = demoMode
             /\ ret'.op = "get_recommendation_engine"
                    => ret'.raised = None /\ ret'.value = engineSingleton]_vars

\* a call passing the other mode than the one the engine was created
\* with returned the engine, which holds registered items
C20_Witness ==
    /\ ret.op = "get_recommendation_engine"
    /\ engineSingleton # Nothing /\ ret.value = engineSingleton
    /\ ret.demo_mode # demoMode
    /\ Len(catalog) >= 2

(***************************************************************************)
(* SpecCatalog: registration of items, one at a time and in batches.       *)
(***************************************************************************)
CatalogObjs == {1, 2, 3, 4}

InitCatalog ==
    /\ InitAnimes
    /\ InitEngine(FALSE, FALSE, TRUE)
    /\ prefs = NewUserPreferences
    /\ ret = NoCall

NextCatalog ==
    \/ \E o \in CatalogObjs : AddAnime(o)
    \/ \E n \in 0..MaxBatch : AddAnimeBatch(n)

SpecCatalog == InitCatalog /\ [][NextCatalog]_vars

\* the catalog after add_anime was called on each element of os in order
RECURSIVE AfterAddAnimeEach(_, _)
AfterAddAnimeEach(cat, os) ==
    IF os = <<>> THEN cat
    ELSE CatalogPut(AfterAddAnimeEach(cat, SubSeq(os, 1, Len(os) - 1)), os[Len(os)])

OneEntryPerId(cat) ==
    \A i, j \in DOMAIN cat : cat[i].id = cat[j].id => i = j

\* the objects that a registration call was given, in order
RegisteredBy(r) ==
    IF r.op = "add_anime" THEN <<r.obj>>
    ELSE IF r.op = "add_anime_batch" THEN r.batch
    ELSE <<>>

IdsOf(os) == {AnimePool[os[i]].id : i \in DOMAIN os}

\* C18: every add_anime and add_anime_batch call leaves one entry per id
\* ever registered, the entry of an id the call registered being the last
\* object the call was given for it and the other entries being kept, and
\* add_anime_batch(xs) leaves the catalog that add_anime on each element
\* of xs in order leaves
C18_OneEntryPerIdLatest ==
    [][LET os == RegisteredBy(ret')
       IN  ret'.op \in {"add_anime", "add_anime_batch"}
               => /\ OneEntryPerId(catalog')
                  /\ CatalogIds(catalog') = CatalogIds(catalog) \cup IdsOf(os)
                  /\ \A i \in DOMAIN os :
                         (\A j \in DOMAIN os :
                              j > i => AnimePool[os[j]].id # AnimePool[os[i]].id)
                             => CatalogObj(catalog', AnimePool[os[i]].id) = os[i]
                  /\ \A id \in CatalogIds(catalog) \ IdsOf(os) :
                         CatalogObj(catalog', id) = CatalogObj(catalog, id)
                  /\ catalog' = AfterAddAnimeEach(catalog, os)]_vars

\* a batch that holds two objects of one id was registered over a catalog
\* that already held that id, and the later one is the entry
C18_Witness ==
    /\ ret.op = "add_anime_batch"
    /\ Len(ret.batch) = 3
    /\ AnimePool[ret.batch[1]].id = AnimePool[ret.batch[3]].id
    /\ ret.batch[1] # ret.batch[3]
    /\ Len(catalog) = 3
    /\ CatalogObj(catalog, AnimePool[ret.batch[3]].id) = ret.batch[3]
    /\ catalog[1].id = AnimePool[ret.batch[3]].id

(***************************************************************************)
(* SpecExplain: _generate_explanation called for an item and a profile, as *)
(* test_generate_explanation does, on an engine with a client, on one      *)
(* without, and on a demo engine.                                          *)
(***************************************************************************)
\* explanation, in ret, of what the call did: provider tells whether
\* analyze_text was called and what it did
GenerateExplanationCall(o, outcome) ==
    /\ (~openaiClient \/ demoMode) => outcome = "text"
    /\ ret' = [op |-> "_generate_explanation", anime |-> o,
               provider |-> IF ~openaiClient \/ demoMode
                            THEN "not invoked" ELSE outcome,
               value |-> GenerateExplanation(o, prefs, demoMode, openaiClient,
                                             outcome)]
    /\ UNCHANGED <<catalog, animeVars, prefs, bridgeVars>>

\* 0.8 of the test, a weight between 0 and 0.5, and a disliked genre
ExplainGenres == {<<"action", 8>>, <<"action", 3>>, <<"drama", -5>>}
ExplainStudios == {"Studio A"}
\* (demo_mode, openai_client is not None)
ExplainEngines == {<<FALSE, TRUE>>, <<TRUE, FALSE>>, <<TRUE, TRUE>>, <<FALSE, FALSE>>}

InitExplain ==
    /\ InitAnimes
    /\ \E e \in ExplainEngines : InitEngine(e[1], FALSE, e[2])
    /\ prefs = NewUserPreferences
    /\ ret = NoCall

NextExplain ==
    \/ \E g \in ExplainGenres : UpdateGenrePreference(g[1], g[2])
    \/ \E st \in ExplainStudios : AddFavoriteStudio(st)
    \/ \E m \in {"excited", "any"} : SetMood(m)
    \/ \E o \in ScenarioObjs, outcome \in ExplainOutcomes :
           GenerateExplanationCall(o, outcome)

SpecExplain == InitExplain /\ [][NextExplain]_vars

\* the rule: the item shares a genre the profile weights > 0, the item
\* has a favourite studio
SharesLikedGenre(o, p) ==
    \E i \in DOMAIN AnimePool[o].genres :
        DictGet(p.genre_preferences, AnimePool[o].genres[i], 0) > 0
HasFavoriteStudio(o, p) ==
    \E i \in DOMAIN AnimePool[o].studios :
        AnimePool[o].studios[i] \in p.favorite_studios

\* the explanation is one of the four rule messages, citing a genre
\* exactly when one matches and a studio exactly when one matches
FollowsRule(e, o, p) ==
    /\ e.kind = "fallback"
    /\ (e.genres # <<>>) = SharesLikedGenre(o, p)
    /\ (e.studios # <<>>) = HasFavoriteStudio(o, p)

\* C23 as stated: whenever the explanation does not come from the
\* provider (no client, demo mode, or the provider raised) it follows the
\* rule
C23_RuleWheneverLocal ==
    (ret.op = "_generate_explanation" /\ ret.provider # "text")
        => FollowsRule(ret.value, ret.anime, prefs)

\* C23: whenever the provider was asked and raised, the explanation
\* follows the rule
C23_RuleWhenProviderRaised ==
    (ret.op = "_generate_explanation" /\ ret.provider = "raise")
        => FollowsRule(ret.value, ret.anime, prefs)

\* the provider raised for an item with a liked genre and a favourite
\* studio
C23_Witness ==
    /\ ret.op = "_generate_explanation" /\ ret.provider = "raise"
    /\ SharesLikedGenre(ret.anime, prefs) /\ HasFavoriteStudio(ret.anime, prefs)
    /\ ret.value.genres # <<>> /\ ret.value.studios # <<>>

IsFetch(r) == r.op = "_fetch_trailer_sync"

\* C11: in demo mode _fetch_trailer_sync never invokes the trailer
\* provider, and what it returns for a title is the synthetic metadata
\* derived from the title alone, whatever was fetched before
C11_DemoDeterministic ==
    (IsFetch(ret) /\ demoMode)
        => ret.lookup = "not invoked" /\ ret.value = MockTrailer(ret.title)

\* a repeated fetch on a demo engine that holds a client, after fetches of
\* other titles
C11_Witness ==
    /\ IsFetch(ret) /\ demoMode /\ youtubeClient
    /\ ret.cached
    /\ Cardinality(DOMAIN trailerCache) >= 3

\* C12 as stated: after a lookup for a title raised or found no trailer,
\* the next fetch for the same title returns the all-None result without
\* invoking the trailer provider
C12_NotFoundCached ==
    [][(/\ IsFetch(ret) /\ ret.lookup \in {"raise", "empty"}
        /\ IsFetch(ret') /\ ret'.title = ret.title)
           => ret'.lookup = "not invoked" /\ ret'.value = AllNone]_vars

\* C13: a title in the trailer cache keeps its metadata, and a fetch for
\* it returns that metadata without invoking the trailer provider,
\* whatever the provider would answer now
C13_FoundStaysCached ==
    [][\A t \in DOMAIN trailerCache :
          /\ t \in DOMAIN trailerCache' /\ trailerCache'[t] = trailerCache[t]
          /\ (IsFetch(ret') /\ ret'.title = t)
                 => ret'.lookup = "not invoked" /\ ret'.value = trailerCache[t]]_vars

\* a fetch served from the cache on an online engine for a title whose
\* trailer was found earlier, other titles having been found too
C13_Witness ==
    /\ IsFetch(ret) /\ ~demoMode /\ youtubeClient
    /\ ret.cached /\ ret.lookup = "not invoked"
    /\ ret.value # AllNone
    /\ Cardinality(DOMAIN trailerCache) >= 2




(***************************************************************************)
(* SpecSimCache: similarity computations between registered items, with    *)
(* registrations (a second object under an id included) and sentiment      *)
(* analyses that change the features of an item in between.                *)
(***************************************************************************)
CacheObjs == {1, 2, 4}
RegisteredCacheObjs == {catalog[i].obj : i \in DOMAIN catalog}
\* the analyzer raises or answers its first result
CacheOutcomes == {0, 1}

NextSimCache ==
    \/ \E o \in CacheObjs : AddAnime(o)
    \/ \E a, b \in RegisteredCacheObjs : ComputeSimilarity(a, b)
    \/ \E o \in RegisteredCacheObjs, outcome \in CacheOutcomes :
           AnalyzeAnimeSentiment(o, outcome)

SpecSimCache == Init /\ [][NextSimCache]_vars

\* C28 as stated: for registered items a and b, a's cache holds an entry
\* for (a, b) exactly when b's cache holds one for (b, a), and the two
\* entries hold the same value.
C28_PairConsistent ==
    \A a, b \in RegisteredCacheObjs :
        /\ (CacheKey(a, b) \in DOMAIN simCache[a])
               <=> (CacheKey(b, a) \in DOMAIN simCache[b])
        /\ (CacheKey(a, b) \in DOMAIN simCache[a]
                /\ CacheKey(b, a) \in DOMAIN simCache[b])
               => simCache[a][CacheKey(a, b)] = simCache[b][CacheKey(b, a)]

\* C29 as stated: an entry of an item's similarity cache, which is what a
\* later _compute_similarity on the same objects returns, stays and keeps
\* its value through every operation.
C29_EntriesNeverChange ==
    [][\A a \in CacheObjs : \A k \in DOMAIN simCache[a] :
           k \in DOMAIN simCache'[a] /\ simCache'[a][k] = simCache[a][k]]_vars

(***************************************************************************)
(* SpecEnrich: get_recommendations with include_trailers.  The trailer of  *)
(* each candidate is fetched right after it is scored, in catalog order,   *)
(* and attached to its result before the list is sorted and cut.           *)
(***************************************************************************)

\* RecommendationOptions(..., include_trailers=include_trailers)
WithTrailers(opts, include_trailers) ==
    [k \in DOMAIN opts \cup {"include_trailers"} |->
        IF k = "include_trailers" THEN include_trailers ELSE opts[k]]

\* self._trailer_cache after _fetch_trailer_sync ran for the first n
\* candidates; outcomes[i] is what the provider does if asked for the i-th
RECURSIVE CacheAfterFetches(_, _, _, _, _, _, _)
CacheAfterFetches(cands, n, cache, demo_mode, client, loop, outcomes) ==
    IF n = 0 THEN cache
    ELSE FetchTrailer(AnimePool[cands[n].obj].title,
                      CacheAfterFetches(cands, n - 1, cache, demo_mode, client,
                                        loop, outcomes),
                      demo_mode, client, loop, outcomes[n]).cache

\* trailer_info of the i-th candidate
TrailerInfo(cands, i, cache, demo_mode, client, loop, outcomes) ==
    FetchTrailer(AnimePool[cands[i].obj].title,
                 CacheAfterFetches(cands, i - 1, cache, demo_mode, client,
                                   loop, outcomes),
                 demo_mode, client, loop, outcomes[i]).info

\* mutant: a candidate whose trailer was not found is left out
WithTrailerInfoFoundOnly(scored, trailers, include_trailers) ==
    SelectSeq([i \in DOMAIN scored |->
                  [anime |-> scored[i].anime, score |-> scored[i].score,
                   trailer |-> IF include_trailers THEN trailers[i] ELSE AllNone]],
              LAMBDA r : ~include_trailers \/ r.trailer # AllNone)

\* results.append(RecommendationResult(anime=..., score=..., trailer_url=...,
\* ...)): the four trailer fields stay None unless include_trailers
WithTrailerInfo(scored, trailers, include_trailers) ==
    [i \in DOMAIN scored |->
        [anime |-> scored[i].anime, score |-> scored[i].score,
         trailer |-> IF include_trailers THEN trailers[i] ELSE AllNone]]

\* what the provider does for a candidate of the call: it raises or finds
\* a video
EnrichOutcomes == {[kind |-> "raise"], Video("v1", TRUE, TRUE)}

\* get_recommendations under RecommendationOptions(limit, include_watched,
\* weights, generate_explanations=False, include_trailers)
GetRecommendationsTrailers(limit, include_watched, w, include_trailers) ==
    LET opts == WithTrailers(Options(limit, include_watched, w, FALSE),
                             include_trailers)
        cands == Candidates(catalog, prefs, opts)
    IN  /\ constructed
        /\ \E fetched \in [NeedsVisualFetch(catalog, visualProfile, prefs, opts) ->
                              UNION {VisualFetchOutcomes(o, demoMode) : o \in Objs}],
              outcomes \in [IF include_trailers THEN DOMAIN cands ELSE {} ->
                               EnrichOutcomes] :
             /\ \A o \in DOMAIN fetched : fetched[o] \in VisualFetchOutcomes(o, demoMode)
             /\ LET vis == [o \in Objs |-> IF o \in DOMAIN fetched
                                           THEN fetched[o] ELSE visualProfile[o]]
                    trailers == [i \in DOMAIN outcomes |->
                                    TrailerInfo(cands, i, trailerCache, demoMode,
                                                youtubeClient, eventLoop, outcomes)]
                IN  IF RankingRaises(catalog, prefs, opts)
                    THEN /\ ret' = [op |-> "get_recommendations", opts |-> opts,
                                    explained |-> <<>>, lookups |-> outcomes,
                                    raised |-> "ZeroDivisionError", value |-> <<>>]
                         /\ LET first == cands[1].obj
                            IN  visualProfile' =
                                    IF first \in DOMAIN fetched
                                    THEN [visualProfile EXCEPT ![first] = fetched[first]]
                                    ELSE visualProfile
                         /\ trailerCache' = trailerCache
                    ELSE /\ ret' = [op |-> "get_recommendations", opts |-> opts,
                                    explained |-> <<>>, lookups |-> outcomes,
                                    raised |-> None,
                                    value |-> Truncate(SortByScore(
                                        WithTrailerInfo(
                                            ScoredResults(catalog, features, vis,
                                                          prefs, opts),
                                            trailers, include_trailers)),
                                        opts.limit)]
                         /\ visualProfile' = vis
                         /\ trailerCache' =
                                IF include_trailers
                                THEN CacheAfterFetches(cands, Len(cands), trailerCache,
                                                       demoMode, youtubeClient,
                                                       eventLoop, outcomes)
                                ELSE trailerCache
        /\ UNCHANGED <<catalog, features, simCache, prefs, demoMode, youtubeClient,
                       openaiClient, eventLoop, closing, constructed, fetchLoopsOpen,
                       engineSingleton>>

EnrichObjs == {1, 2, 3}
EnrichTitles == {AnimePool[o].title : o \in EnrichObjs}
EnrichWeights == {DefaultWeights, ZeroWeights}

InitEnrich ==
    /\ InitAnimes
    /\ \E d \in BOOLEAN, c \in BOOLEAN : InitEngine(d, c, ~d)
    /\ prefs = NewUserPreferences
    /\ ret = NoCall

NextEnrich ==
    \/ \E o \in EnrichObjs : AddAnime(o)
    \/ SetMood("happy")
    \/ \E t \in EnrichTitles, outcome \in EnrichOutcomes : FetchTrailerSync(t, outcome)
    \/ \E w \in EnrichWeights, it \in BOOLEAN : GetRecommendationsTrailers(2, TRUE, w, it)

SpecEnrich == InitEnrich /\ [][NextEnrich]_vars

\* the identifiers and scores of a result list, in its order
Ranking(value) ==
    [i \in DOMAIN value |-> [anime |-> value[i].anime, score |-> value[i].score]]

\* C24: get_recommendations returns the same items in the same order with
\* the same scores, and raises alike, whether or not include_trailers is
\* set, whatever the trailer cache holds and whatever the lookups answer.
C24_TrailersDoNotChangeRanking ==
    (ret.op = "get_recommendations")
        => /\ ret.raised = IF RankingRaises(catalog, prefs, ret.opts)
                           THEN "ZeroDivisionError" ELSE None
           /\ ret.raised = None
                  => Ranking(ret.value) =
                         RankedResults(catalog, features, visualProfile, prefs,
                                       WithTrailers(ret.opts, FALSE))

\* a call with trailers on an online engine that cut the list, one lookup
\* having raised and another having found a video, with an entry in the
\* cache from before
C24_Witness ==
    /\ ret.op = "get_recommendations" /\ ret.opts.include_trailers
    /\ ~demoMode /\ youtubeClient /\ ret.raised = None
    /\ Len(catalog) = 3 /\ Len(ret.value) = 2
    /\ \E i \in DOMAIN ret.lookups : ret.lookups[i].kind = "raise"
    /\ \E i \in DOMAIN ret.value : ret.value[i].trailer = AllNone
    /\ \E i \in DOMAIN ret.value : ret.value[i].trailer # AllNone
    /\ ret.value[1].score # ret.value[2].score

(***************************************************************************)
(* SpecBridge: trailer fetches interleaved with the teardown of the        *)
(* engine.  _cleanup_event_loop is split at its first statement, so that a *)
(* fetch of another thread can run while the closing flag is set.  The     *)
(* object under teardown is either a constructed engine or the object that *)
(* a constructor which raised at get_openai_client leaves to __del__.      *)
(***************************************************************************)

\* self.youtube_client.close() and the cancellation of the pending tasks
\* either return or raise
TeardownOutcomes == {"ok", "raise"}

\* the object left by __init__ when get_openai_client raises ConfigError:
\* only _anime_catalog and _demo_mode are assigned
InitHalfBuilt ==
    /\ catalog = <<>>
    /\ demoMode = FALSE
    /\ youtubeClient = FALSE
    /\ openaiClient = FALSE
    /\ trailerCache = EmptyDict
    /\ eventLoop = None
    /\ closing = FALSE
    /\ constructed = FALSE
    /\ fetchLoopsOpen = 0
    /\ engineSingleton = Nothing

\* self._closing = True, the first statement of _cleanup_event_loop
CleanupBegin ==
    /\ ~closing
    /\ closing' = TRUE
    /\ UNCHANGED <<catalog, animeVars, prefs, demoMode, youtubeClient, openaiClient,
                   trailerCache, eventLoop, constructed, fetchLoopsOpen,
                   engineSingleton, ret>>

\* reading self.youtube_client raises AttributeError on an object whose
\* constructor never assigned it
CleanupRaises(is_constructed) == ~is_constructed

\* the session of the client after the first block of the teardown
ClientClose(client, close_outcome) ==
    IF ~client THEN "not invoked"
    ELSE IF close_outcome = "raise" THEN "raised" ELSE "closed"

\* the loop the teardown creates to close the client: temp_loop.close()
\* follows run_until_complete inside the try
CleanupLoop(client, loop, close_outcome) ==
    IF ~client \/ ~(loop = None \/ loop = "closed") THEN "none"
    ELSE IF close_outcome = "raise" THEN "left open" ELSE "closed"

\* what became of the owned loop: close() is the last statement of the try
OwnedLoopClose(loop, cancel_outcome) ==
    IF loop = None \/ loop = "closed" THEN "not invoked"
    ELSE IF cancel_outcome = "raise" THEN "left open" ELSE "closed"

\* self._event_loop after the teardown: cleared in the finally of the
\* second block, which a missing or closed loop does not enter
HandleAfterCleanup(loop) ==
    IF loop = None \/ loop = "closed" THEN loop ELSE None

\* the rest of _cleanup_event_loop, from the test of self.youtube_client on
CleanupFinish(close_outcome, cancel_outcome) ==
    /\ closing
    /\ IF CleanupRaises(constructed)
       THEN /\ ret' = [op |-> "_cleanup_event_loop", raised |-> "AttributeError",
                       client |-> "not invoked", cleanup_loop |-> "none",
                       owned_loop |-> "not invoked"]
            /\ UNCHANGED <<eventLoop, closing>>
       ELSE /\ ret' = [op |-> "_cleanup_event_loop", raised |-> None,
                       client |-> ClientClose(youtubeClient, close_outcome),
                       cleanup_loop |-> CleanupLoop(youtubeClient, eventLoop, close_outcome),
                       owned_loop |-> OwnedLoopClose(eventLoop, cancel_outcome)]
            /\ eventLoop' = HandleAfterCleanup(eventLoop)
            /\ closing' = FALSE
    /\ UNCHANGED <<catalog, animeVars, prefs, demoMode, youtubeClient, openaiClient,
                   trailerCache, constructed, fetchLoopsOpen, engineSingleton>>

InitBridge ==
    /\ InitAnimes
    /\ \E d \in BOOLEAN, c \in BOOLEAN, key \in BOOLEAN :
           IF ConstructorRaises(d, key) THEN InitHalfBuilt ELSE InitEngine(d, c, ~d)
    /\ prefs = NewUserPreferences
    /\ ret = NoCall

NextBridge ==
    \/ \E t \in Titles, outcome \in TrailerOutcomes : FetchTrailerSync(t, outcome)
    \/ CleanupBegin
    \/ \E x \in TeardownOutcomes, y \in TeardownOutcomes : CleanupFinish(x, y)

SpecBridge == InitBridge /\ [][NextBridge]_vars

IsCleanup(r) == r.op = "_cleanup_event_loop"

\* C25: a fetch that begins while the closing flag is set creates no event
\* loop and dispatches no lookup.
C25_NoLookupWhileClosing ==
    [][(closing /\ IsFetch(ret'))
           => (ret'.loop = "none" /\ ret'.lookup = "not invoked")]_vars

\* C26: _cleanup_event_loop never raises, and when it is over the owned
\* loop is closed or was never open, the handle is cleared and the closing
\* flag is reset, whatever closing the client and cancelling the tasks do.
C26_CleanupNeverRaises ==
    IsCleanup(ret)
        => /\ ret.raised = None
           /\ ret.owned_loop # "left open"
           /\ eventLoop = None
           /\ ~closing

\* C27: no event loop created by a trailer fetch is open once the fetch
\* has returned, whether the lookup succeeded, found nothing or failed.
C27_NoTemporaryLoopLeftOpen == fetchLoopsOpen = 0

C27_Witness ==
    /\ IsFetch(ret) /\ ret.loop = "temporary" /\ ret.lookup = "raise"
    /\ \E t \in DOMAIN trailerCache : trailerCache[t] # AllNone

\* C30: the owned loop handle is None in every state, so a fetch that
\* invokes the lookup runs it on a temporary loop and no fetch takes the
\* branch of the owned loop.
C30_OwnedLoopNeverSet ==
    /\ eventLoop = None
    /\ IsFetch(ret) => /\ ret.loop # "owned"
                       /\ (ret.lookup # "not invoked" => ret.loop = "temporary")
    /\ IsCleanup(ret) => ret.owned_loop = "not invoked"

C30_Witness ==
    /\ IsFetch(ret) /\ ret.lookup = "video" /\ ret.loop = "temporary"
    /\ ~closing /\ fetchLoopsOpen = 0
    /\ \E t \in DOMAIN trailerCache : t # ret.title

====
